---- MODULE Spec2Model ----
(***************************************************************************)
(* Multi-path debate orchestrator of issuelab-secondme.                    *)
(*                                                                         *)
(* Two entry points drive the same round-based debate over the three       *)
(* paths: POST /api/chat (src/app/api/chat/route.ts), which streams SSE    *)
(* events and mirrors state into Prisma, and generateForumReply            *)
(* (src/lib/orchestrator/generateForumReply.ts), which runs the paths of   *)
(* a round under Promise.all.  A behaviour of Spec is one run of one of    *)
(* the two entry points, chosen in Init (variable prog).                   *)
(*                                                                         *)
(* External collaborators (reasoner, responder, Prisma) answer every call  *)
(* either with a value or by throwing; the outcome is chosen with \E in    *)
(* the action that models the resumption after the await.                  *)
(***************************************************************************)
EXTENDS Integers, Sequences, FiniteSets, Bags, TLC

(* ---------------------------------------------------------------------- *)
(* Bounds                                                                  *)
(* ---------------------------------------------------------------------- *)

\* largest configured number of debate rounds explored
MaxRounds == 2

(* ---------------------------------------------------------------------- *)
(* Fixed data                                                              *)
(* ---------------------------------------------------------------------- *)

\* const paths: PathType[] = ["radical", "conservative", "cross_domain"]
paths == <<"radical", "conservative", "cross_domain">>

Paths == {paths[i] : i \in 1..Len(paths)}

\* session ids the responder may assign; "s1" is the request's session
SessionIds == {"s1", "s2"}

\* the value of constraints[path] before any judge has answered
Undefined == [path |-> "-", round |-> 0]

\* the value of reports[path] before a report was stored
NoReport == "undefined"

VARIABLES
    prog,               \* "chat" (POST /api/chat) or "forum" (generateForumReply)
    agentsEnabled,      \* shouldRunSystemAgents()
    debateRounds,       \* getDebateRounds()
    pc,                 \* control point of the async function
    round,              \* loop variable of the round loop
    pathIdx,            \* position of `for (const path of paths)`
    pathTurns,          \* Record<PathType, DebateTurn[]>
    constraints,        \* Partial<Record<PathType, string>>
    failedPaths,        \* Set<PathType>
    reports,            \* Partial<Record<PathType, JsonRecord>>
    systemAgentFailed,  \* let systemAgentFailed
    mainSessionId,      \* let mainSessionId
    finalAnswerText,    \* let finalAnswerText ("" until a reply is stored)
    runId,              \* let runId: TRUE when prisma.run.create returned an id
    pathRunIdMap,       \* set of paths whose pathRun row was created
    events,             \* sequence of SSE events enqueued on the controller
    closeCalls,         \* number of controller.close() calls
    dbRunStatus,        \* persisted Run.status ("none" when no row)
    dbPathStatus,       \* persisted PathRun.status per path
    dbAssistant,        \* session id of the stored assistant message, or "none"
    inflight,           \* per path: the awaited call ("none" when not awaiting)
    calls,              \* bag of the reasoner/responder calls issued so far
    callFailedAt,       \* per path: round in which one of its calls threw (0: never)
    escaped,            \* the await whose exception left the orchestration ("none": no throw)
    writeThrew,         \* TRUE once a persistence write of the run has thrown
    tpc,                \* control point of callJudge/runJsonTask ("idle": not running)
    hasToken,           \* getAuthToken() is non-empty
    attempt,            \* loop variable of runJsonTask (0 before the loop)
    apiCalls,           \* number of Messages API calls issued by the task
    fetched,            \* what the upstream did on each settled call, in order
    firstError,         \* let firstError
    thrown,             \* the error that left callJudge (NoError: none)
    judgeResult,        \* the JudgeOutput returned by callJudge (NoJudgeResult: none)
    envRounds,          \* process.env.SYSTEM_AGENT_DEBATE_ROUNDS (a raw value)
    configuredRounds,   \* what getDebateRounds() returned (0: not called yet)
    upstreamLines,      \* the lines the responder upstream sends, in order
    upstreamTerminated, \* whether the last line sent ends with a newline
    upstreamOk,         \* upstream.ok && upstream.body
    wire,               \* the part of the byte stream not read yet
    spc,                \* control point of requestSecondMeReply
    lineBuffer,         \* requestSecondMeReply: lineBuffer
    replyText,          \* requestSecondMeReply: text
    replySessionId,     \* requestSecondMeReply: sessionId
    streamReply,        \* what requestSecondMeReply returned (NoReply: nothing)
    forumComments,      \* the comments the forum holds, in order
    mentionTasks,       \* table mention_tasks
    lastSeenAt,         \* forum_cursors row "default": last_seen_at
    pollPc,             \* control point of each forum-poll invocation
    pollCursor,         \* forum-poll: cursor.lastSeenAt as read at the start
    pollQueue,          \* forum-poll: comments the loop has not reached yet
    pollNewest,         \* forum-poll: newestSeenAt
    clock,              \* the time
    dispatchPc,         \* control point of each forum-dispatch invocation
    dispatchNow,        \* forum-dispatch: now
    dispatchBatch,      \* forum-dispatch: tasks the loop has not finished yet
    dispatchFallback,   \* forum-dispatch: resultPayload.fallback
    forumReplies,       \* replies the forum accepted, per task
    retryPc,            \* control point of the retry request
    retryId,            \* retry request: id
    lastResponse        \* status of the response sent last

vars == <<prog, agentsEnabled, debateRounds, pc, round, pathIdx, pathTurns,
          constraints, failedPaths, reports, systemAgentFailed, mainSessionId,
          finalAnswerText, runId, pathRunIdMap, events, closeCalls,
          dbRunStatus, dbPathStatus, dbAssistant, inflight, calls, callFailedAt,
          escaped, writeThrew, tpc, hasToken, attempt, apiCalls, fetched,
          firstError, thrown, judgeResult, envRounds, configuredRounds,
          upstreamLines, upstreamTerminated, upstreamOk, wire, spc, lineBuffer,
          replyText, replySessionId, streamReply,
          forumComments, mentionTasks, lastSeenAt, pollPc, pollCursor,
          pollQueue, pollNewest, clock, dispatchPc, dispatchNow, dispatchBatch,
          dispatchFallback, forumReplies, retryPc, retryId, lastResponse>>

\* in-memory orchestration state of one run
orchVars == <<pathTurns, constraints, failedPaths, reports, systemAgentFailed,
              mainSessionId, finalAnswerText>>

dbVars == <<dbRunStatus, dbPathStatus, dbAssistant>>

cfgVars == <<prog, agentsEnabled, debateRounds>>

\* history of the thrown calls
throwVars == <<callFailedAt, escaped, writeThrew>>

\* state of the configuration reader
roundsVars == <<envRounds, configuredRounds>>

\* state of requestSecondMeReply and of its upstream
streamVars ==
    <<upstreamLines, upstreamTerminated, upstreamOk, wire, spc, lineBuffer,
      replyText, replySessionId, streamReply>>

\* state of the forum, of the two tables and of the forum-poll invocations
pollVars ==
    <<forumComments, mentionTasks, lastSeenAt, pollPc, pollCursor, pollQueue,
      pollNewest>>

\* state of the forum-dispatch invocations and of the retry request
dispatchVars ==
    <<clock, dispatchPc, dispatchNow, dispatchBatch, dispatchFallback,
      forumReplies, retryPc, retryId, lastResponse>>

\* state of the programs modelled beside the orchestrators and the task runner
sideVars == <<roundsVars, streamVars, pollVars, dispatchVars>>

\* state of the two orchestrators
hostVars == <<cfgVars, pc, round, pathIdx, orchVars, runId, pathRunIdMap, events,
              closeCalls, dbVars, inflight, calls, throwVars>>

\* state of the runtime task runner
taskVars == <<tpc, hasToken, attempt, apiCalls, fetched, firstError, thrown,
              judgeResult>>

(* ---------------------------------------------------------------------- *)
(* Events and calls                                                        *)
(* ---------------------------------------------------------------------- *)

\* emit(event, payload): one SSE event; unused payload fields are "-" / 0
Ev(event, path, rnd, status, err, sid) ==
    [event |-> event, path |-> path, round |-> rnd, status |-> status,
     err |-> err, sid |-> sid]

EvSession(sid) == Ev("session", "-", 0, "-", FALSE, sid)
EvPathStatus(path, status) == Ev("path_status", path, 0, status, FALSE, "-")
EvDebateStatus(rnd, status) == Ev("debate_status", "-", rnd, status, FALSE, "-")
EvDebateRound(path, rnd, err) == Ev("debate_round", path, rnd, "-", err, "-")
EvJudgeRound(path, rnd, err) == Ev("judge_round", path, rnd, "-", err, "-")
EvPathReport(path) == Ev("path_report", path, 0, "-", FALSE, "-")
EvSimple(event) == Ev(event, "-", 0, "-", FALSE, "-")
EvDone(sid) == Ev("done", "-", 0, "-", FALSE, sid)

\* one call to the reasoner or the responder, with the inputs the claims
\* are about: the round, the constraint handed in and the reports handed in
Call(kind, path, rnd, constraint, reps) ==
    [kind |-> kind, path |-> path, round |-> rnd, constraint |-> constraint,
     reports |-> reps]

Issue(c) == calls (+) SetToBag({c})

\* `Round constraint: ${constraints[path] ?? "none"}` in the responder prompt
None == [path |-> "none", round |-> 0]

PromptConstraint(c) == IF c = Undefined THEN None ELSE c

\* the JudgeOutput of callJudge; next_constraint is String(json.next_constraint ?? ""),
\* a string private to this judge call
JudgeOutput(path, rnd) == [path |-> path, round |-> rnd,
                           next_constraint |-> [path |-> path, round |-> rnd]]

\* the CoachOutput of callCoach
CoachOutput(path, rnd) == [path |-> path, round |-> rnd]

HasReport(path) == reports[path] # NoReport

ReportSet == {p \in Paths : HasReport(p)}

NoneInflight == [p \in Paths |-> "none"]

(* ---------------------------------------------------------------------- *)
(* Decisions of the orchestrator                                           *)
(* ---------------------------------------------------------------------- *)

\* the `path` of the current iteration of `for (const path of paths)`
CurPath == paths[pathIdx]

\* variant: the skip of failed paths is missing
IsSkipped_Never(path) == FALSE

\* if (failedPaths.has(path)) continue;
IsSkipped(path) == path \in failedPaths

\* variant: a throwing call fails every path
MarkFailed_All(path) == Paths

\* failedPaths.add(path) in the catch of a round attempt
MarkFailed(path) == failedPaths \cup {path}

\* variant: one constraint slot shared by the three paths
CarriedConstraint_Shared(path) == constraints[paths[1]]

\* the constraint handed to the coach context and to the judge: constraints[path]
CarriedConstraint(path) == constraints[path]

\* constraints[path] = judge.next_constraint
UpdateConstraint(path, judge) == [constraints EXCEPT ![path] = judge.next_constraint]

\* variant: the transcript keeps only the latest turn
PushTurn_Replace(turns, rnd, coach, judge) ==
    <<[round |-> rnd, coach |-> coach, secondme |-> "reply", judge |-> judge]>>

\* pathTurns[path].push({ round, coach, secondme, judge })
PushTurn(turns, rnd, coach, judge) ==
    Append(turns, [round |-> rnd, coach |-> coach, secondme |-> "reply", judge |-> judge])

\* if (failedPaths.has(path) || pathTurns[path].length === 0): no report call
ReportSkipped(path) == path \in failedPaths \/ Len(pathTurns[path]) = 0

\* variant: the gate forgets the cross_domain report
AllReportsPresent_TwoOnly == HasReport("radical") /\ HasReport("conservative")

\* if (radical && conservative && crossDomain)
AllReportsPresent ==
    HasReport("radical") /\ HasReport("conservative") /\ HasReport("cross_domain")

\* status: systemAgentFailed ? "partial_failed" : "done"
FinalStatus == IF systemAgentFailed THEN "partial_failed" ELSE "done"

(* ---------------------------------------------------------------------- *)
(* POST /api/chat: the body of ReadableStream.start                        *)
(* ---------------------------------------------------------------------- *)

RoundAwaits == {"await_coach", "await_responder", "await_judge"}

\* awaits outside every inner try: a throw reaches the outer catch
UnguardedAwaits == {"await_direct", "save_direct", "await_report", "await_synth",
                    "await_final", "await_eval", "await_fallback", "save_assistant"}

\* persistence writes wrapped in their own try/catch
GuardedWrites == {"create_run", "persist_turn", "persist_path_failed",
                  "persist_report", "persist_run", "persist_run_failed"}

\* every persistence write performed while the stream is running
PersistenceWrites == GuardedWrites \cup {"save_direct", "save_assistant"}

\* controller.enqueue(emit("session", ...)) and the branch on shouldRunSystemAgents()
ChatStart ==
    /\ prog = "chat" /\ pc = "start"
    /\ IF ~agentsEnabled
       THEN /\ events' = Append(events, EvSession(mainSessionId))
            /\ calls' = Issue(Call("responder_main", "-", 0, Undefined, {}))
            /\ pc' = "await_direct"
       ELSE /\ events' = events \o <<EvSession(mainSessionId),
                                     EvPathStatus("-", "running"),
                                     EvPathStatus(paths[1], "running"),
                                     EvPathStatus(paths[2], "running"),
                                     EvPathStatus(paths[3], "running")>>
            /\ calls' = calls
            /\ pc' = "create_run"
    /\ UNCHANGED <<sideVars, taskVars, cfgVars, round, pathIdx, orchVars, runId, pathRunIdMap,
                   closeCalls, dbVars, inflight, throwVars>>

\* direct mode: the responder answered; final_answer is emitted and the
\* assistant message write is started
DirectReplyReturns ==
    /\ prog = "chat" /\ pc = "await_direct"
    /\ \E sid \in SessionIds :
        /\ mainSessionId' = sid
        /\ events' = events
                     \o (IF sid # mainSessionId THEN <<EvSession(sid)>> ELSE <<>>)
                     \o <<EvSimple("final_answer")>>
    /\ finalAnswerText' = "reply"
    /\ pc' = "save_direct"
    /\ UNCHANGED <<sideVars, taskVars, cfgVars, round, pathIdx, pathTurns, constraints, failedPaths,
                   reports, systemAgentFailed, runId, pathRunIdMap, closeCalls,
                   dbVars, inflight, calls, throwVars>>

\* variant: the assistant message is stored under the request's session id
AssistantMessageSession_Request == "s1"

\* prisma.chatMessage.create({ data: { sessionId: mainSessionId, role: "assistant" } })
AssistantMessageSession == mainSessionId

\* direct mode: the write succeeded; done, controller.close(), return, and
\* the finally block calls controller.close() again
DirectSaveReturns ==
    /\ prog = "chat" /\ pc = "save_direct"
    /\ dbAssistant' = AssistantMessageSession
    /\ events' = Append(events, EvDone(mainSessionId))
    /\ closeCalls' = closeCalls + 2
    /\ pc' = "closed"
    /\ UNCHANGED <<sideVars, taskVars, cfgVars, round, pathIdx, orchVars, runId, pathRunIdMap,
                   dbRunStatus, dbPathStatus, inflight, calls, throwVars>>

\* task/run/pathRun creation inside try { } catch { }: the task or the run
\* create may throw (no ids), or the pathRun creates succeed for a subset
CreateRunReturns ==
    /\ prog = "chat" /\ pc = "create_run"
    /\ \E created \in BOOLEAN, rows \in SUBSET Paths :
        /\ (~created) => rows = {}
        /\ runId' = created
        /\ pathRunIdMap' = rows
        /\ dbRunStatus' = IF created THEN "running" ELSE "none"
        /\ dbPathStatus' = [p \in Paths |-> IF p \in rows THEN "running" ELSE "none"]
        /\ writeThrew' = (~created \/ rows # Paths)
    /\ round' = 1
    /\ pc' = "round_loop"
    /\ UNCHANGED <<sideVars, taskVars, cfgVars, pathIdx, orchVars, events, closeCalls, dbAssistant,
                   inflight, calls, callFailedAt, escaped>>

\* for (let round = 1; round <= debateRounds; round += 1) { emit debate_status running
RoundLoop ==
    /\ prog = "chat" /\ pc = "round_loop"
    /\ IF round <= debateRounds
       THEN /\ events' = Append(events, EvDebateStatus(round, "running"))
            /\ pc' = "path_loop"
       ELSE /\ events' = events
            /\ pc' = "report_loop"
    /\ pathIdx' = 1
    /\ UNCHANGED <<sideVars, taskVars, cfgVars, round, orchVars, runId, pathRunIdMap, closeCalls,
                   dbVars, inflight, calls, throwVars>>

\* end of the inner for: emit debate_status done; round += 1
RoundDone ==
    /\ prog = "chat" /\ pc = "path_loop" /\ pathIdx > Len(paths)
    /\ events' = Append(events, EvDebateStatus(round, "done"))
    /\ round' = round + 1
    /\ pc' = "round_loop"
    /\ UNCHANGED <<sideVars, taskVars, cfgVars, pathIdx, orchVars, runId, pathRunIdMap, closeCalls,
                   dbVars, inflight, calls, throwVars>>

\* if (failedPaths.has(path)) continue;
SkipFailedPath ==
    /\ prog = "chat" /\ pc = "path_loop" /\ pathIdx <= Len(paths)
    /\ IsSkipped(CurPath)
    /\ pathIdx' = pathIdx + 1
    /\ UNCHANGED <<sideVars, taskVars, cfgVars, pc, round, orchVars, runId, pathRunIdMap, events,
                   closeCalls, dbVars, inflight, calls, throwVars>>

\* await callCoach(path, { taskInput, round, context: { constraint, history } })
CallCoach ==
    /\ prog = "chat" /\ pc = "path_loop" /\ pathIdx <= Len(paths)
    /\ ~IsSkipped(CurPath)
    /\ calls' = Issue(Call("coach", CurPath, round, CarriedConstraint(CurPath), {}))
    /\ inflight' = [inflight EXCEPT ![CurPath] = "coach"]
    /\ pc' = "await_coach"
    /\ UNCHANGED <<sideVars, taskVars, cfgVars, round, pathIdx, orchVars, runId, pathRunIdMap, events,
                   closeCalls, dbVars, throwVars>>

\* the coach answered: build secondmePrompt and await requestSecondMeReply
CoachReturns ==
    /\ prog = "chat" /\ pc = "await_coach"
    /\ calls' = Issue(Call("responder", CurPath, round,
                           PromptConstraint(constraints[CurPath]), {}))
    /\ inflight' = [inflight EXCEPT ![CurPath] = "responder"]
    /\ pc' = "await_responder"
    /\ UNCHANGED <<sideVars, taskVars, cfgVars, round, pathIdx, orchVars, runId, pathRunIdMap, events,
                   closeCalls, dbVars, throwVars>>

\* the responder answered: await callJudge({ ..., constraint: constraints[path] })
ResponderReturns ==
    /\ prog = "chat" /\ pc = "await_responder"
    /\ calls' = Issue(Call("judge", CurPath, round, CarriedConstraint(CurPath), {}))
    /\ inflight' = [inflight EXCEPT ![CurPath] = "judge"]
    /\ pc' = "await_judge"
    /\ UNCHANGED <<sideVars, taskVars, cfgVars, round, pathIdx, orchVars, runId, pathRunIdMap, events,
                   closeCalls, dbVars, throwVars>>

\* variant: a round attempt emits its judge_round event only
RoundEvents_JudgeOnly(path, rnd, err) == <<EvJudgeRound(path, rnd, err)>>

\* the two events a round attempt of a path ends with: with the outputs after
\* the judge answered (route.ts:283-297), with the error from the catch block
\* (route.ts:337-350)
RoundEvents(path, rnd, err) ==
    <<EvDebateRound(path, rnd, err), EvJudgeRound(path, rnd, err)>>

\* the judge answered: update the constraint, push the turn, emit
\* debate_round and judge_round, then persist the turn if a pathRun row exists
JudgeReturns ==
    /\ prog = "chat" /\ pc = "await_judge"
    /\ LET path == CurPath
           judge == JudgeOutput(path, round)
       IN /\ constraints' = UpdateConstraint(path, judge)
          /\ pathTurns' = [pathTurns EXCEPT ![path] =
                              PushTurn(@, round, CoachOutput(path, round), judge)]
          /\ events' = events \o RoundEvents(path, round, FALSE)
          /\ inflight' = [inflight EXCEPT ![path] = "none"]
          /\ IF path \in pathRunIdMap
             THEN pc' = "persist_turn" /\ pathIdx' = pathIdx
             ELSE pc' = "path_loop" /\ pathIdx' = pathIdx + 1
    /\ UNCHANGED <<sideVars, taskVars, cfgVars, round, failedPaths, reports, systemAgentFailed,
                   mainSessionId, finalAnswerText, runId, pathRunIdMap, closeCalls,
                   dbVars, calls, throwVars>>

\* catch (error) of the round attempt: the coach, responder or judge call threw
RoundCallThrows ==
    /\ prog = "chat" /\ pc \in RoundAwaits
    /\ systemAgentFailed' = TRUE
    /\ failedPaths' = MarkFailed(CurPath)
    /\ events' = events \o RoundEvents(CurPath, round, TRUE)
    /\ inflight' = [inflight EXCEPT ![CurPath] = "none"]
    /\ callFailedAt' = [callFailedAt EXCEPT ![CurPath] = round]
    /\ pathIdx' = pathIdx + 1
    /\ pc' = "path_loop"
    /\ UNCHANGED <<sideVars, taskVars, cfgVars, round, pathTurns, constraints, reports, mainSessionId,
                   finalAnswerText, runId, pathRunIdMap, closeCalls, dbVars, calls,
                   escaped, writeThrew>>

\* after a guarded or successful write that belongs to one path of a loop:
\* the loop moves on to the next path
AfterPathWrite == IF pc = "persist_turn" THEN "path_loop" ELSE "report_loop"

\* prisma.$transaction([turn.create x3]) inside try { } catch { }
PersistTurnReturns ==
    /\ prog = "chat" /\ pc = "persist_turn"
    /\ pc' = AfterPathWrite
    /\ pathIdx' = pathIdx + 1
    /\ UNCHANGED <<sideVars, taskVars, cfgVars, round, orchVars, runId, pathRunIdMap, events,
                   closeCalls, dbVars, inflight, calls, throwVars>>

\* end of the report loop
ReportStageDone ==
    /\ prog = "chat" /\ pc = "report_loop" /\ pathIdx > Len(paths)
    /\ pc' = "gate"
    /\ UNCHANGED <<sideVars, taskVars, cfgVars, round, pathIdx, orchVars, runId, pathRunIdMap, events,
                   closeCalls, dbVars, inflight, calls, throwVars>>

\* a failed or empty path: emit path_status failed, no report call
SkipReport ==
    /\ prog = "chat" /\ pc = "report_loop" /\ pathIdx <= Len(paths)
    /\ ReportSkipped(CurPath)
    /\ events' = Append(events, EvPathStatus(CurPath, "failed"))
    /\ IF CurPath \in pathRunIdMap
       THEN pc' = "persist_path_failed" /\ pathIdx' = pathIdx
       ELSE pc' = "report_loop" /\ pathIdx' = pathIdx + 1
    /\ UNCHANGED <<sideVars, taskVars, cfgVars, round, orchVars, runId, pathRunIdMap, closeCalls,
                   dbVars, inflight, calls, throwVars>>

\* prisma.pathRun.update({ status: "failed" }) inside try { } catch { }
PersistPathFailedReturns ==
    /\ prog = "chat" /\ pc = "persist_path_failed"
    /\ dbPathStatus' = [dbPathStatus EXCEPT ![CurPath] = "failed"]
    /\ pc' = AfterPathWrite
    /\ pathIdx' = pathIdx + 1
    /\ UNCHANGED <<sideVars, taskVars, cfgVars, round, orchVars, runId, pathRunIdMap, events,
                   closeCalls, dbRunStatus, dbAssistant, inflight, calls, throwVars>>

\* await callPathReport({ path, transcript })
CallPathReport ==
    /\ prog = "chat" /\ pc = "report_loop" /\ pathIdx <= Len(paths)
    /\ ~ReportSkipped(CurPath)
    /\ calls' = Issue(Call("report", CurPath, 0, Undefined, {}))
    /\ pc' = "await_report"
    /\ UNCHANGED <<sideVars, taskVars, cfgVars, round, pathIdx, orchVars, runId, pathRunIdMap, events,
                   closeCalls, dbVars, inflight, throwVars>>

\* the report came back: store it, emit path_report and path_status done
ReportReturns ==
    /\ prog = "chat" /\ pc = "await_report"
    /\ reports' = [reports EXCEPT ![CurPath] = "report"]
    /\ events' = events \o <<EvPathReport(CurPath), EvPathStatus(CurPath, "done")>>
    /\ IF CurPath \in pathRunIdMap
       THEN pc' = "persist_report" /\ pathIdx' = pathIdx
       ELSE pc' = "report_loop" /\ pathIdx' = pathIdx + 1
    /\ UNCHANGED <<sideVars, taskVars, cfgVars, round, pathTurns, constraints, failedPaths,
                   systemAgentFailed, mainSessionId, finalAnswerText, runId,
                   pathRunIdMap, closeCalls, dbVars, inflight, calls, throwVars>>

\* prisma.$transaction([pathReport.upsert, pathRun.update done]) inside try/catch
PersistReportReturns ==
    /\ prog = "chat" /\ pc = "persist_report"
    /\ dbPathStatus' = [dbPathStatus EXCEPT ![CurPath] = "done"]
    /\ pc' = AfterPathWrite
    /\ pathIdx' = pathIdx + 1
    /\ UNCHANGED <<sideVars, taskVars, cfgVars, round, orchVars, runId, pathRunIdMap, events,
                   closeCalls, dbRunStatus, dbAssistant, inflight, calls, throwVars>>

\* the gate holds: await callSynthesize({ radical, conservative, cross_domain })
GateSynthesize ==
    /\ prog = "chat" /\ pc = "gate"
    /\ AllReportsPresent
    /\ calls' = Issue(Call("synthesize", "-", 0, Undefined, ReportSet))
    /\ pc' = "await_synth"
    /\ UNCHANGED <<sideVars, taskVars, cfgVars, round, pathIdx, orchVars, runId, pathRunIdMap, events,
                   closeCalls, dbVars, inflight, throwVars>>

\* else branch: systemAgentFailed = true; direct responder call with the question
GateFallback ==
    /\ prog = "chat" /\ pc = "gate"
    /\ ~AllReportsPresent
    /\ systemAgentFailed' = TRUE
    /\ calls' = Issue(Call("responder_main", "-", 0, Undefined, {}))
    /\ pc' = "await_fallback"
    /\ UNCHANGED <<sideVars, taskVars, cfgVars, round, pathIdx, pathTurns, constraints, failedPaths,
                   reports, mainSessionId, finalAnswerText, runId, pathRunIdMap,
                   events, closeCalls, dbVars, inflight, throwVars>>

\* synthesis came back: emit it and ask the responder for the final answer
SynthReturns ==
    /\ prog = "chat" /\ pc = "await_synth"
    /\ events' = Append(events, EvSimple("synthesis"))
    /\ calls' = Issue(Call("responder_main", "-", 0, Undefined, {}))
    /\ pc' = "await_final"
    /\ UNCHANGED <<sideVars, taskVars, cfgVars, round, pathIdx, orchVars, runId, pathRunIdMap,
                   closeCalls, dbVars, inflight, throwVars>>

\* variant: the reply's text is held back until the evaluation is in
MainReplyEvents_SessionOnly(sid) == <<EvSession(sid)>>

\* after a main-session reply of the agents mode: if (reply.sessionId) { session }
\* then final_answer.  The reply always carries a session id (the one passed in
\* unless the upstream assigned another)
MainReplyEvents(sid) == <<EvSession(sid), EvSimple("final_answer")>>

\* the final reply came back: emit session and final_answer, await callEvaluate
FinalReturns ==
    /\ prog = "chat" /\ pc = "await_final"
    /\ \E sid \in SessionIds :
        /\ mainSessionId' = sid
        /\ events' = events \o MainReplyEvents(sid)
    /\ finalAnswerText' = "reply"
    /\ calls' = Issue(Call("evaluate", "-", 0, Undefined, ReportSet))
    /\ pc' = "await_eval"
    /\ UNCHANGED <<sideVars, taskVars, cfgVars, round, pathIdx, pathTurns, constraints, failedPaths,
                   reports, systemAgentFailed, runId, pathRunIdMap, closeCalls,
                   dbVars, inflight, throwVars>>

\* the write of the assistant message is started at line 504
\* (after the run-status write when a run row exists)
AfterRunWrite == "save_assistant"

\* evaluation came back: emit it; persist artifact/evaluation/run if (runId)
EvalReturns ==
    /\ prog = "chat" /\ pc = "await_eval"
    /\ events' = Append(events, EvSimple("evaluation"))
    /\ pc' = IF runId THEN "persist_run" ELSE AfterRunWrite
    /\ UNCHANGED <<sideVars, taskVars, cfgVars, round, pathIdx, orchVars, runId, pathRunIdMap,
                   closeCalls, dbVars, inflight, calls, throwVars>>

\* prisma.$transaction([artifact, evaluation, run.update]) inside try/catch
PersistRunReturns ==
    /\ prog = "chat" /\ pc = "persist_run"
    /\ dbRunStatus' = IF systemAgentFailed THEN "failed" ELSE "done"
    /\ pc' = AfterRunWrite
    /\ UNCHANGED <<sideVars, taskVars, cfgVars, round, pathIdx, orchVars, runId, pathRunIdMap, events,
                   closeCalls, dbPathStatus, dbAssistant, inflight, calls, throwVars>>

\* the fallback reply came back: emit session and final_answer
FallbackReturns ==
    /\ prog = "chat" /\ pc = "await_fallback"
    /\ \E sid \in SessionIds :
        /\ mainSessionId' = sid
        /\ events' = events \o MainReplyEvents(sid)
    /\ finalAnswerText' = "reply"
    /\ pc' = IF runId THEN "persist_run_failed" ELSE AfterRunWrite
    /\ UNCHANGED <<sideVars, taskVars, cfgVars, round, pathIdx, pathTurns, constraints, failedPaths,
                   reports, systemAgentFailed, runId, pathRunIdMap, closeCalls,
                   dbVars, inflight, calls, throwVars>>

\* prisma.run.update({ status: "failed" }) inside try/catch
PersistRunFailedReturns ==
    /\ prog = "chat" /\ pc = "persist_run_failed"
    /\ dbRunStatus' = "failed"
    /\ pc' = AfterRunWrite
    /\ UNCHANGED <<sideVars, taskVars, cfgVars, round, pathIdx, orchVars, runId, pathRunIdMap, events,
                   closeCalls, dbPathStatus, dbAssistant, inflight, calls, throwVars>>

\* variant: the stream ends without the global path_status
TailEvents_DoneOnly == <<EvDone(mainSessionId)>>

\* the tail of the try block: the global path_status, then done
TailEvents == <<EvPathStatus("-", FinalStatus), EvDone(mainSessionId)>>

\* the assistant message was written: emit the tail; finally { controller.close() }
SaveAssistantReturns ==
    /\ prog = "chat" /\ pc = "save_assistant"
    /\ dbAssistant' = AssistantMessageSession
    /\ events' = events \o TailEvents
    /\ closeCalls' = closeCalls + 1
    /\ pc' = "closed"
    /\ UNCHANGED <<sideVars, taskVars, cfgVars, round, pathIdx, orchVars, runId, pathRunIdMap,
                   dbRunStatus, dbPathStatus, inflight, calls, throwVars>>

\* a write inside its own try { } catch { } threw: the catch is empty and the
\* code after it runs as after a successful write, without the row change
GuardedWriteThrows ==
    /\ prog = "chat" /\ pc \in GuardedWrites \ {"create_run"}
    /\ IF pc \in {"persist_run", "persist_run_failed"}
       THEN pc' = AfterRunWrite /\ pathIdx' = pathIdx
       ELSE pc' = AfterPathWrite /\ pathIdx' = pathIdx + 1
    /\ UNCHANGED <<sideVars, taskVars, cfgVars, round, orchVars, runId, pathRunIdMap, events,
                   closeCalls, dbVars, inflight, calls, callFailedAt, escaped>>
    /\ writeThrew' = TRUE

\* variant: the catch block also reports the global status
CatchEvents_WithStatus == <<EvPathStatus("-", "partial_failed"), EvSimple("error")>>

\* catch (error) { emit("error") } finally { controller.close() }
CatchEvents == <<EvSimple("error")>>

\* an await outside every inner try threw (report, synthesis, final reply,
\* evaluation, fallback reply, direct reply, assistant message write)
UnguardedAwaitThrows ==
    /\ prog = "chat" /\ pc \in UnguardedAwaits
    /\ events' = events \o CatchEvents
    /\ closeCalls' = closeCalls + 1
    /\ escaped' = pc
    /\ writeThrew' = (writeThrew \/ pc \in PersistenceWrites)
    /\ pc' = "closed"
    /\ UNCHANGED <<sideVars, taskVars, cfgVars, round, pathIdx, orchVars, runId, pathRunIdMap, dbVars,
                   inflight, calls, callFailedAt>>

ChatNext ==
    \/ ChatStart \/ DirectReplyReturns \/ DirectSaveReturns \/ CreateRunReturns
    \/ RoundLoop \/ RoundDone \/ SkipFailedPath \/ CallCoach \/ CoachReturns
    \/ ResponderReturns \/ JudgeReturns \/ RoundCallThrows \/ PersistTurnReturns
    \/ ReportStageDone \/ SkipReport \/ PersistPathFailedReturns \/ CallPathReport
    \/ ReportReturns \/ PersistReportReturns \/ GateSynthesize \/ GateFallback
    \/ SynthReturns \/ FinalReturns \/ EvalReturns \/ PersistRunReturns
    \/ FallbackReturns \/ PersistRunFailedReturns \/ SaveAssistantReturns
    \/ GuardedWriteThrows \/ UnguardedAwaitThrows

(* ---------------------------------------------------------------------- *)
(* generateForumReply                                                      *)
(* ---------------------------------------------------------------------- *)

\* const activePaths = paths.filter((path) => !failedPaths.has(path))
activePaths == {p \in Paths : p \notin failedPaths}

\* variant: the round loop does not await the callbacks
AllSettled_NoJoin == TRUE

\* await Promise.all(...): every callback of the round has settled
AllSettled == \A p \in Paths : inflight[p] = "none"

\* round <= rounds: Promise.all(activePaths.map(async (path) => ...)) runs every
\* callback up to its first await, so the coach calls of all active paths are
\* issued in the same tick
ForumRoundStart ==
    /\ prog = "forum" /\ pc = "f_round" /\ round <= debateRounds
    /\ calls' = calls (+) SetToBag({Call("coach", p, round, CarriedConstraint(p), {})
                                      : p \in activePaths})
    /\ inflight' = [p \in Paths |-> IF p \in activePaths THEN "coach" ELSE inflight[p]]
    /\ pc' = "f_await"
    /\ UNCHANGED <<sideVars, taskVars, cfgVars, round, pathIdx, orchVars, runId, pathRunIdMap, events,
                   closeCalls, dbVars, throwVars>>

\* the coach of one path answered: buildPathAgentReply, then await callJudge
ForumCoachReturns ==
    /\ prog = "forum" /\ pc = "f_await"
    /\ \E p \in Paths :
        /\ inflight[p] = "coach"
        /\ calls' = Issue(Call("judge", p, round, CarriedConstraint(p), {}))
        /\ inflight' = [inflight EXCEPT ![p] = "judge"]
    /\ UNCHANGED <<sideVars, taskVars, cfgVars, pc, round, pathIdx, orchVars, runId, pathRunIdMap,
                   events, closeCalls, dbVars, throwVars>>

\* the judge of one path answered: update the constraint and push the turn
ForumJudgeReturns ==
    /\ prog = "forum" /\ pc = "f_await"
    /\ \E p \in Paths :
        /\ inflight[p] = "judge"
        /\ LET judge == JudgeOutput(p, round)
           IN /\ constraints' = UpdateConstraint(p, judge)
              /\ pathTurns' = [pathTurns EXCEPT ![p] =
                                  PushTurn(@, round, CoachOutput(p, round), judge)]
        /\ inflight' = [inflight EXCEPT ![p] = "none"]
    /\ UNCHANGED <<sideVars, taskVars, cfgVars, pc, round, pathIdx, failedPaths, reports,
                   systemAgentFailed, mainSessionId, finalAnswerText, runId,
                   pathRunIdMap, events, closeCalls, dbVars, calls, throwVars>>

\* catch { failedPaths.add(path) }: the coach or the judge call of one path threw
ForumCallThrows ==
    /\ prog = "forum" /\ pc = "f_await"
    /\ \E p \in Paths :
        /\ inflight[p] \in {"coach", "judge"}
        /\ failedPaths' = MarkFailed(p)
        /\ inflight' = [inflight EXCEPT ![p] = "none"]
        /\ callFailedAt' = [callFailedAt EXCEPT ![p] = round]
    /\ UNCHANGED <<sideVars, taskVars, cfgVars, pc, round, pathIdx, pathTurns, constraints, reports,
                   systemAgentFailed, mainSessionId, finalAnswerText, runId,
                   pathRunIdMap, events, closeCalls, dbVars, calls, escaped,
                   writeThrew>>

\* Promise.all resolved: round += 1
ForumRoundJoin ==
    /\ prog = "forum" /\ pc = "f_await"
    /\ AllSettled
    /\ round' = round + 1
    /\ pc' = "f_round"
    /\ UNCHANGED <<sideVars, taskVars, cfgVars, pathIdx, orchVars, runId, pathRunIdMap, events,
                   closeCalls, dbVars, inflight, calls, throwVars>>

\* round > rounds: leave the round loop
ForumRoundsDone ==
    /\ prog = "forum" /\ pc = "f_round" /\ round > debateRounds
    /\ pathIdx' = 1
    /\ pc' = "f_report_loop"
    /\ UNCHANGED <<sideVars, taskVars, cfgVars, round, orchVars, runId, pathRunIdMap, events,
                   closeCalls, dbVars, inflight, calls, throwVars>>

\* if (failedPaths.has(path) || pathTurns[path].length === 0) continue;
ForumSkipReport ==
    /\ prog = "forum" /\ pc = "f_report_loop" /\ pathIdx <= Len(paths)
    /\ ReportSkipped(CurPath)
    /\ pathIdx' = pathIdx + 1
    /\ UNCHANGED <<sideVars, taskVars, cfgVars, pc, round, orchVars, runId, pathRunIdMap, events,
                   closeCalls, dbVars, inflight, calls, throwVars>>

\* reports[path] = await callPathReport(...)
ForumCallPathReport ==
    /\ prog = "forum" /\ pc = "f_report_loop" /\ pathIdx <= Len(paths)
    /\ ~ReportSkipped(CurPath)
    /\ calls' = Issue(Call("report", CurPath, 0, Undefined, {}))
    /\ pc' = "f_await_report"
    /\ UNCHANGED <<sideVars, taskVars, cfgVars, round, pathIdx, orchVars, runId, pathRunIdMap, events,
                   closeCalls, dbVars, inflight, throwVars>>

ForumReportReturns ==
    /\ prog = "forum" /\ pc = "f_await_report"
    /\ reports' = [reports EXCEPT ![CurPath] = "report"]
    /\ pathIdx' = pathIdx + 1
    /\ pc' = "f_report_loop"
    /\ UNCHANGED <<sideVars, taskVars, cfgVars, round, pathTurns, constraints, failedPaths,
                   systemAgentFailed, mainSessionId, finalAnswerText, runId,
                   pathRunIdMap, events, closeCalls, dbVars, inflight, calls,
                   throwVars>>

\* if (!reports.radical || ...) throw new Error("Not enough path reports ...")
ForumGateThrows ==
    /\ prog = "forum" /\ pc = "f_report_loop" /\ pathIdx > Len(paths)
    /\ ~AllReportsPresent
    /\ pc' = "f_thrown"
    /\ UNCHANGED <<sideVars, taskVars, cfgVars, round, pathIdx, orchVars, runId, pathRunIdMap, events,
                   closeCalls, dbVars, inflight, calls, throwVars>>

\* await callSynthesize({ radical, conservative, cross_domain })
ForumGateSynthesize ==
    /\ prog = "forum" /\ pc = "f_report_loop" /\ pathIdx > Len(paths)
    /\ AllReportsPresent
    /\ calls' = Issue(Call("synthesize", "-", 0, Undefined, ReportSet))
    /\ pc' = "f_await_synth"
    /\ UNCHANGED <<sideVars, taskVars, cfgVars, round, pathIdx, orchVars, runId, pathRunIdMap, events,
                   closeCalls, dbVars, inflight, throwVars>>

\* await callEvaluate({ ..., synthesis })
ForumSynthReturns ==
    /\ prog = "forum" /\ pc = "f_await_synth"
    /\ calls' = Issue(Call("evaluate", "-", 0, Undefined, ReportSet))
    /\ pc' = "f_await_eval"
    /\ UNCHANGED <<sideVars, taskVars, cfgVars, round, pathIdx, orchVars, runId, pathRunIdMap, events,
                   closeCalls, dbVars, inflight, throwVars>>

\* return { text, synthesis, evaluation, reports }
ForumEvalReturns ==
    /\ prog = "forum" /\ pc = "f_await_eval"
    /\ finalAnswerText' = "reply"
    /\ pc' = "f_returned"
    /\ UNCHANGED <<sideVars, taskVars, cfgVars, round, pathIdx, pathTurns, constraints, failedPaths,
                   reports, systemAgentFailed, mainSessionId, runId, pathRunIdMap,
                   events, closeCalls, dbVars, inflight, calls, throwVars>>

\* a report, synthesis or evaluation call threw: the promise rejects
ForumStageThrows ==
    /\ prog = "forum" /\ pc \in {"f_await_report", "f_await_synth", "f_await_eval"}
    /\ escaped' = pc
    /\ pc' = "f_thrown"
    /\ UNCHANGED <<sideVars, taskVars, cfgVars, round, pathIdx, orchVars, runId, pathRunIdMap, events,
                   closeCalls, dbVars, inflight, calls, callFailedAt, writeThrew>>

ForumNext ==
    \/ ForumRoundStart \/ ForumCoachReturns \/ ForumJudgeReturns \/ ForumCallThrows
    \/ ForumRoundJoin \/ ForumRoundsDone \/ ForumSkipReport \/ ForumCallPathReport
    \/ ForumReportReturns \/ ForumGateThrows \/ ForumGateSynthesize
    \/ ForumSynthReturns \/ ForumEvalReturns \/ ForumStageThrows

(* ---------------------------------------------------------------------- *)
(* Runtime task runner: callJudge over runJsonTask and callMessagesApi     *)
(* (prog = "judge").  One behaviour is one callJudge invocation; the       *)
(* upstream's conduct on each Messages API call is chosen with \E when     *)
(* the call settles.                                                       *)
(* ---------------------------------------------------------------------- *)

\* a raw JSON value: type tag t; i, f: integer part (floor) and tenths digit of a
\* number; s: the characters of a string
Raw(t, i, f, s) == [t |-> t, i |-> i, f |-> f, s |-> s]

Missing == Raw("missing", 0, 0, "")

\* raw round_score values: numbers -5, -0.4, 0, 0.5, 49.4, 85, 99.5, 100, 100.4,
\* 200; number literals beyond the double range (1e999, -1e999); the strings
\* "150", "85.5", "-3", "high", "", "Infinity"; null; true; [150]; {}; absent
RawScores ==
    {Raw("number", n[1], n[2], "") :
        n \in {<<-5, 0>>, <<-1, 6>>, <<0, 0>>, <<0, 5>>, <<49, 4>>, <<85, 0>>,
               <<99, 5>>, <<100, 0>>, <<100, 4>>, <<200, 0>>}}
    \cup {Raw("overflow", 1, 0, ""), Raw("overflow", -1, 0, "")}
    \cup {Raw("numeric_string", n[1], n[2], "") :
            n \in {<<150, 0>>, <<85, 5>>, <<-3, 0>>}}
    \cup {Raw("string", 0, 0, s) : s \in {"high", "", "Infinity"}}
    \cup {Missing, Raw("null", 0, 0, ""), Raw("boolean", 1, 0, ""),
          Raw("array_of_number", 150, 0, ""), Raw("object", 0, 0, "")}

\* raw verdict values
RawVerdicts ==
    {Raw("string", 0, 0, s) :
        s \in {"accept", "reject", "revise", "ACCEPT", "unknown", ""}}
    \cup {Missing, Raw("null", 0, 0, ""), Raw("number", 1, 0, ""),
          Raw("boolean", 1, 0, ""), Raw("array_of_string", 0, 0, "accept"),
          Raw("array_of_string", 0, 0, "maybe"), Raw("object", 0, 0, "")}

\* raw critical_gap / next_constraint values
RawTexts == {Missing, Raw("string", 0, 0, "text")}

\* the fields of the object the judge prompt asks for
JudgeJsons ==
    [round_score : RawScores, verdict : RawVerdicts,
     critical_gap : RawTexts, next_constraint : RawTexts]

NoJson == [round_score |-> Missing, verdict |-> Missing,
           critical_gap |-> Missing, next_constraint |-> Missing]

\* a model output text: what surrounds the payload (wrap) and the payload (body)
Text(wrap, body, json) == [wrap |-> wrap, body |-> body, json |-> json]

\* nothing, a ``` fence with prose around it, prose around it, [ ] around it
Wraps == {"none", "fence", "prose", "array"}

\* {"k": v}, {"k": v,}, {k: v}, a list 1, 2 / [1, 2], a scalar 42, words, nothing
ObjectBodies == {"object", "trailing_comma"}
OtherBodies == {"unquoted_keys", "list", "scalar", "plain", "empty"}

Texts ==
    {Text(w, b, j) : w \in Wraps, b \in ObjectBodies, j \in JudgeJsons}
    \cup {Text(w, b, NoJson) : w \in Wraps, b \in OtherBodies}

EmptyText == Text("none", "empty", NoJson)

\* the text has a "{" followed later by a "}"
HasBraces(text) == text.body \in {"object", "trailing_comma", "unquoted_keys"}

\* the fenced block's content if there is a non-empty one, else the slice from
\* the first "{" to the last "}", else the trimmed text
extractJsonText(raw) ==
    IF raw = EmptyText THEN raw
    ELSE IF raw.wrap = "fence" /\ raw.body # "empty" THEN [raw EXCEPT !.wrap = "none"]
    ELSE IF HasBraces(raw) THEN [raw EXCEPT !.wrap = "none"]
    ELSE raw

\* text.replace(/,\s*([}\]])/g, "$1")
sanitizeJsonText(raw) ==
    IF raw.body = "trailing_comma" THEN [raw EXCEPT !.body = "object"] ELSE raw

\* an error value: constructor name, message, and what follows the message
Err(name, message, detail) == [name |-> name, message |-> message, detail |-> detail]

NoError == Err("-", "-", "-")

\* error instanceof Error
InstanceOfError(error) ==
    error.name \in {"Error", "SyntaxError", "TypeError", "AbortError"}

\* JSON.parse: [ok, kind of the parsed value, fields of a parsed object]
JsonParse(text) ==
    CASE text.wrap = "none" /\ text.body = "object" ->
            [ok |-> TRUE, kind |-> "object", json |-> text.json]
      [] text.wrap = "none" /\ text.body = "list" ->
            [ok |-> TRUE, kind |-> "array", json |-> NoJson]
      [] text.wrap = "none" /\ text.body = "scalar" ->
            [ok |-> TRUE, kind |-> "scalar", json |-> NoJson]
      [] text.wrap = "array" /\ text.body \in {"object", "list", "scalar", "empty"} ->
            [ok |-> TRUE, kind |-> "array", json |-> NoJson]
      [] OTHER -> [ok |-> FALSE, kind |-> "-", json |-> NoJson]

\* !value || typeof value !== "object" || Array.isArray(value)  =>  null
asObject(parsed) == parsed.kind = "object"

\* the outcome of a call: it threw `error`, or it returned `value`
Threw(error) == [threw |-> TRUE, error |-> error, value |-> NoJson]
Returned(value) == [threw |-> FALSE, error |-> NoError, value |-> value]

parseJsonObject(raw) ==
    LET parsed == JsonParse(sanitizeJsonText(extractJsonText(raw)))
    IN  IF ~parsed.ok THEN Threw(Err("SyntaxError", "Unexpected token", ""))
        ELSE IF ~asObject(parsed)
             THEN Threw(Err("Error", "Model returned non-object JSON", ""))
             ELSE Returned(parsed.json)

\* what the upstream does with one POST /v1/messages: fetch rejects with an
\* AbortError (the timer fired) or a network error, or resolves with a response;
\* the body is JSON with a content array, other JSON, not JSON, or its read is
\* cut by the abort
Upstream(fetch, status, body, errorMessage, message, text) ==
    [fetch |-> fetch, status |-> status, body |-> body,
     errorMessage |-> errorMessage, message |-> message, text |-> text]

ErrorStatuses == {"401", "502"}

Upstreams ==
    {Upstream("abort", "-", "-", "", "", EmptyText),
     Upstream("network", "-", "-", "", "", EmptyText)}
    \cup {Upstream("response", "200", "json_content", "", "", t) : t \in Texts}
    \cup {Upstream("response", "200", b, "", "", EmptyText) :
            b \in {"json_other", "not_json", "abort"}}
    \cup {Upstream("response", s, "json_other", e, m, EmptyText) :
            s \in ErrorStatuses, e \in {"", "invalid key"}, m \in {"", "overloaded"}}
    \cup {Upstream("response", s, b, "", "", EmptyText) :
            s \in ErrorStatuses, b \in {"not_json", "abort"}}

\* response.ok
ResponseOk(b) == b.status = "200"

\* `HTTP ${response.status}`
HttpText(status) == IF status = "401" THEN "HTTP 401" ELSE "HTTP 502"

\* payload.content's text chunks joined and trimmed, "" without a content array
extractTextFromMessagePayload(b) ==
    IF b.body = "json_content" THEN b.text ELSE EmptyText

ApiThrew(error) == [threw |-> TRUE, error |-> error, text |-> EmptyText]
ApiReturned(text) == [threw |-> FALSE, error |-> NoError, text |-> text]

\* the error leaving callMessagesApi's catch block
MapCaught(error) ==
    IF InstanceOfError(error) /\ error.name = "AbortError"
    THEN Err("Error", "Messages API timeout", "")
    ELSE error

callMessagesApi(b) ==
    IF b.fetch = "abort" \/ (b.fetch = "response" /\ b.body = "abort")
    THEN ApiThrew(MapCaught(Err("AbortError", "This operation was aborted", "")))
    ELSE IF b.fetch = "network"
    THEN ApiThrew(MapCaught(Err("TypeError", "fetch failed", "")))
    ELSE IF b.body = "not_json"
    THEN ApiThrew(MapCaught(Err("SyntaxError", "Unexpected token", "")))
    ELSE IF ~ResponseOk(b)
    THEN ApiThrew(MapCaught(Err("Error", "Messages API failed: ",
            IF b.errorMessage # "" THEN b.errorMessage
            ELSE IF b.message # "" THEN b.message
            ELSE HttpText(b.status))))
    ELSE ApiReturned(extractTextFromMessagePayload(b))

\* a JavaScript number: finite i + f/10, NaN, Infinity or -Infinity
Num(k, i, f) == [k |-> k, i |-> i, f |-> f]

NaN == Num("nan", 0, 0)

\* Number(s) for a string that does not spell a decimal number
StringToNumber(s) ==
    IF s = "" THEN Num("fin", 0, 0)
    ELSE IF s = "Infinity" THEN Num("inf", 0, 0)
    ELSE IF s = "-Infinity" THEN Num("-inf", 0, 0)
    ELSE NaN

\* Number(value)
ToNumber(value) ==
    CASE value.t \in {"number", "numeric_string", "array_of_number"} ->
            Num("fin", value.i, value.f)
      [] value.t = "overflow" -> Num(IF value.i > 0 THEN "inf" ELSE "-inf", 0, 0)
      [] value.t = "null" -> Num("fin", 0, 0)
      [] value.t = "boolean" -> Num("fin", value.i, 0)
      [] value.t \in {"string", "array_of_string"} -> StringToNumber(value.s)
      [] OTHER -> NaN

\* Math.round(num): half a unit rounds up
MathRound(num) == IF num.f >= 5 THEN num.i + 1 ELSE num.i

\* variant: no upper limit
clampScore_NoCeiling(value) ==
    LET num == ToNumber(value)
    IN  IF num.k # "fin" THEN 0
        ELSE IF num.i < 0 THEN 0
        ELSE MathRound(num)

clampScore(value) ==
    LET num == ToNumber(value)
    IN  IF num.k # "fin" THEN 0
        ELSE IF num.i < 0 THEN 0
        ELSE IF num.i > 100 \/ (num.i = 100 /\ num.f > 0) THEN 100
        ELSE MathRound(num)

\* the decimal text of a number (only "0" and "1" are told apart: no digit
\* string is compared with anything but the verdict words)
DecimalText(value) ==
    IF value.f = 0 /\ value.i = 0 THEN "0"
    ELSE IF value.f = 0 /\ value.i = 1 THEN "1"
    ELSE "digits"

\* String(value) for a value that is neither null nor undefined
StringOf(value) ==
    CASE value.t \in {"string", "array_of_string"} -> value.s
      [] value.t \in {"number", "numeric_string", "array_of_number"} -> DecimalText(value)
      [] value.t = "overflow" -> IF value.i > 0 THEN "Infinity" ELSE "-Infinity"
      [] value.t = "boolean" -> IF value.i = 1 THEN "true" ELSE "false"
      [] OTHER -> "[object Object]"

\* String(value ?? fallback)
StringOr(value, fallback) ==
    IF value.t \in {"missing", "null"} THEN fallback ELSE StringOf(value)

\* verdictRaw === "accept" || verdictRaw === "reject" ? verdictRaw : "revise"
NormalizeVerdict(verdictRaw) ==
    IF verdictRaw = "accept" \/ verdictRaw = "reject" THEN verdictRaw ELSE "revise"

\* the JudgeOutput built by callJudge from the task's object
callJudge(path, rnd, json) ==
    [path |-> path, round |-> rnd,
     round_score |-> clampScore(json.round_score),
     critical_gap |-> StringOr(json.critical_gap, ""),
     next_constraint |-> StringOr(json.next_constraint, ""),
     verdict |-> NormalizeVerdict(StringOr(json.verdict, "revise"))]

NoJudgeResult == [path |-> "-", round |-> 0, round_score |-> 0, critical_gap |-> "",
                  next_constraint |-> "", verdict |-> "-"]

\* for (let attempt = 1; attempt <= 2; attempt += 1)
MaxAttempts == 2

\* variant: a failed attempt is never repeated
Retryable_Never(n, error) == FALSE

\* if (attempt === 1 && error instanceof Error) { firstError = error; continue; }
Retryable(n, error) == n = 1 /\ InstanceOfError(error)

\* one pass of the loop body: callMessagesApi, then parseJsonObject of its text
AttemptOutcome(b) ==
    LET reply == callMessagesApi(b)
    IN  IF reply.threw THEN Threw(reply.error) ELSE parseJsonObject(reply.text)

\* callJudge awaits runJsonTask; a token is configured: the first attempt starts
TaskStart ==
    /\ prog = "judge" /\ tpc = "t_start"
    /\ hasToken
    /\ attempt' = 1
    /\ apiCalls' = apiCalls + 1
    /\ tpc' = "t_fetch"
    /\ UNCHANGED <<sideVars, hostVars, hasToken, fetched, firstError, thrown, judgeResult>>

\* if (!token) throw new Error("Missing ANTHROPIC_AUTH_TOKEN or ANTHROPIC_API_KEY")
TaskMissingToken ==
    /\ prog = "judge" /\ tpc = "t_start"
    /\ ~hasToken
    /\ thrown' = Err("Error", "Missing ANTHROPIC_AUTH_TOKEN or ANTHROPIC_API_KEY", "")
    /\ tpc' = "t_thrown"
    /\ UNCHANGED <<sideVars, hostVars, hasToken, attempt, apiCalls, fetched, firstError, judgeResult>>

\* the attempt produced an object: runJsonTask returns it and callJudge builds
\* its JudgeOutput
AttemptReturns ==
    /\ prog = "judge" /\ tpc = "t_fetch"
    /\ \E b \in Upstreams :
        /\ ~AttemptOutcome(b).threw
        /\ fetched' = Append(fetched, b)
        /\ judgeResult' = callJudge("radical", 1, AttemptOutcome(b).value)
    /\ tpc' = "t_returned"
    /\ UNCHANGED <<sideVars, hostVars, hasToken, attempt, apiCalls, firstError, thrown>>

\* the attempt threw and the catch block continues the loop: the next attempt's
\* call is issued with the retry hint appended to the prompt
AttemptRetried ==
    /\ prog = "judge" /\ tpc = "t_fetch"
    /\ \E b \in Upstreams :
        /\ AttemptOutcome(b).threw
        /\ Retryable(attempt, AttemptOutcome(b).error)
        /\ attempt + 1 <= MaxAttempts
        /\ fetched' = Append(fetched, b)
        /\ firstError' = AttemptOutcome(b).error
    /\ attempt' = attempt + 1
    /\ apiCalls' = apiCalls + 1
    /\ UNCHANGED <<sideVars, hostVars, tpc, hasToken, thrown, judgeResult>>

\* the attempt threw and the error leaves runJsonTask (throw error, or the
\* loop ends and firstError, the same error, is thrown) and callJudge
AttemptThrows ==
    /\ prog = "judge" /\ tpc = "t_fetch"
    /\ \E b \in Upstreams :
        /\ AttemptOutcome(b).threw
        /\ ~(Retryable(attempt, AttemptOutcome(b).error) /\ attempt + 1 <= MaxAttempts)
        /\ fetched' = Append(fetched, b)
        /\ thrown' = AttemptOutcome(b).error
    /\ tpc' = "t_thrown"
    /\ UNCHANGED <<sideVars, hostVars, hasToken, attempt, apiCalls, firstError, judgeResult>>

TaskNext ==
    \/ TaskStart \/ TaskMissingToken \/ AttemptReturns \/ AttemptRetried
    \/ AttemptThrows

\* no task of the runtime is running
TaskIdle ==
    /\ tpc = "idle"
    /\ hasToken = TRUE
    /\ attempt = 0
    /\ apiCalls = 0
    /\ fetched = <<>>
    /\ firstError = NoError
    /\ thrown = NoError
    /\ judgeResult = NoJudgeResult

(* ---------------------------------------------------------------------- *)
(* Configuration: getDebateRounds (prog = "config")                        *)
(* ---------------------------------------------------------------------- *)

\* values of SYSTEM_AGENT_DEBATE_ROUNDS: unset; strings spelling the decimal
\* numbers -3.0 .. 13.9; "", "abc", "Infinity", "-Infinity"
EnvRoundsValues ==
    {Missing}
    \cup {Raw("numeric_string", i, f, "") : i \in -3..13, f \in 0..9}
    \cup {Raw("string", 0, 0, s) : s \in {"", "abc", "Infinity", "-Infinity"}}

\* variant: no upper limit
getDebateRounds_NoCap(env) ==
    LET raw == ToNumber(IF env = Missing THEN Raw("numeric_string", 10, 0, "") ELSE env)
    IN  IF raw.k # "fin" \/ raw.i < 1 THEN 10
        ELSE raw.i

\* Number(env ?? "10"); not finite or < 1: 10; > 10: 10; else Math.floor(raw)
getDebateRounds(env) ==
    LET raw == ToNumber(IF env = Missing THEN Raw("numeric_string", 10, 0, "") ELSE env)
    IN  IF raw.k # "fin" \/ raw.i < 1 THEN 10
        ELSE IF raw.i > 10 \/ (raw.i = 10 /\ raw.f > 0) THEN 10
        ELSE raw.i

\* const debateRounds = getDebateRounds()
ReadDebateRounds ==
    /\ prog = "config" /\ configuredRounds = 0
    /\ configuredRounds' = getDebateRounds(envRounds)
    /\ UNCHANGED <<envRounds, hostVars, taskVars, streamVars, pollVars, dispatchVars>>

(* ---------------------------------------------------------------------- *)
(* Responder stream: requestSecondMeReply (prog = "stream")                *)
(* ---------------------------------------------------------------------- *)

MaxLines == 2

\* one line of the upstream's body. kind "data": `data: <JSON payload>` whose
\* content field is `content` and whose sessionId is `sid` ("none": absent);
\* "done": `data: [DONE]`; "malformed": `data: <not JSON>`; "other": a line
\* that does not start with `data:`
Line(kind, content, sid) == [kind |-> kind, content |-> content, sid |-> sid]

Lines ==
    { Line("data", "a", "none"), Line("data", "b", "s2"), Line("data", "", "s3"),
      Line("done", "", "none"), Line("malformed", "", "none"),
      Line("other", "", "none") }

\* the bytes of a line travel as two pieces, so that a read chunk can end
\* inside a line; NL is the line terminator
Piece(line, half) == [line |-> line, half |-> half]

NL == Piece(Line("nl", "", "none"), 0)

RECURSIVE Bytes(_, _)
\* the byte stream of a body made of `lines`
Bytes(lines, terminated) ==
    IF lines = <<>> THEN <<>>
    ELSE <<Piece(Head(lines), 1), Piece(Head(lines), 2)>>
         \o (IF Len(lines) = 1 /\ ~terminated THEN <<>> ELSE <<NL>>)
         \o Bytes(Tail(lines), terminated)

RECURSIVE SplitLines(_, _)
\* buf.split(/\r?\n/) with `cur` the line being collected: the pieces between
\* terminators, the last element being what follows the last terminator
SplitLines(buf, cur) ==
    IF buf = <<>> THEN <<cur>>
    ELSE IF Head(buf) = NL THEN <<cur>> \o SplitLines(Tail(buf), <<>>)
    ELSE SplitLines(Tail(buf), Append(cur, Head(buf)))

\* what JSON.parse(raw) of a trimmed line yields: the payload of a whole
\* `data:` line carrying JSON; nothing for any other line
Payload(line) ==
    IF /\ Len(line) = 2
       /\ line[1].half = 1 /\ line[2].half = 2
       /\ line[1].line = line[2].line
       /\ line[1].line.kind = "data"
    THEN line[1].line
    ELSE Line("none", "", "none")

RECURSIVE ConsumeLines(_, _)
\* for (const line of lines) { ... }: acc = [sessionId, text]
ConsumeLines(lines, acc) ==
    IF lines = <<>> THEN acc
    ELSE LET payload == Payload(Head(lines))
             next == IF payload.kind # "data" THEN acc
                     ELSE [sessionId |-> IF payload.sid # "none" THEN payload.sid
                                         ELSE acc.sessionId,
                           text |-> IF payload.content = "" THEN acc.text
                                    ELSE Append(acc.text, payload.content)]
         IN  ConsumeLines(Tail(lines), next)

NoReply == [sessionId |-> "none", text |-> <<>>]

Placeholder == <<"No reply from SecondMe.">>

\* return { sessionId, text: text || "No reply from SecondMe." }
Returned_Reply(sid, txt) ==
    [sessionId |-> sid, text |-> IF txt = <<>> THEN Placeholder ELSE txt]

\* secondMeRequest resolves with a response that is not ok or has no body
RequestRejected ==
    /\ prog = "stream" /\ spc = "request"
    /\ ~upstreamOk
    /\ spc' = "threw"
    /\ UNCHANGED <<upstreamLines, upstreamTerminated, upstreamOk, wire,
                   lineBuffer, replyText, replySessionId, streamReply>>
    /\ UNCHANGED <<roundsVars, hostVars, taskVars, pollVars, dispatchVars>>

\* secondMeRequest resolves with a readable body
RequestAccepted ==
    /\ prog = "stream" /\ spc = "request"
    /\ upstreamOk
    /\ spc' = "reading"
    /\ UNCHANGED <<upstreamLines, upstreamTerminated, upstreamOk, wire,
                   lineBuffer, replyText, replySessionId, streamReply>>
    /\ UNCHANGED <<roundsVars, hostVars, taskVars, pollVars, dispatchVars>>

\* reader.read() yields the next n pieces of the stream; the complete lines
\* of lineBuffer are consumed, the rest stays in lineBuffer
ReadChunk ==
    /\ prog = "stream" /\ spc = "reading"
    /\ \E n \in 1..Len(wire) :
         LET lines == SplitLines(lineBuffer \o SubSeq(wire, 1, n), <<>>)
             acc == ConsumeLines(SubSeq(lines, 1, Len(lines) - 1),
                                 [sessionId |-> replySessionId, text |-> replyText])
         IN  /\ wire' = SubSeq(wire, n + 1, Len(wire))
             /\ lineBuffer' = lines[Len(lines)]
             /\ replyText' = acc.text
             /\ replySessionId' = acc.sessionId
    /\ UNCHANGED <<upstreamLines, upstreamTerminated, upstreamOk, spc, streamReply>>
    /\ UNCHANGED <<roundsVars, hostVars, taskVars, pollVars, dispatchVars>>

\* reader.read() yields done: break and return
ReadDone ==
    /\ prog = "stream" /\ spc = "reading"
    /\ wire = <<>>
    /\ streamReply' = Returned_Reply(replySessionId, replyText)
    /\ spc' = "returned"
    /\ UNCHANGED <<upstreamLines, upstreamTerminated, upstreamOk, wire,
                   lineBuffer, replyText, replySessionId>>
    /\ UNCHANGED <<roundsVars, hostVars, taskVars, pollVars, dispatchVars>>

StreamIdle ==
    /\ upstreamLines = <<>> /\ upstreamTerminated = TRUE /\ upstreamOk = TRUE
    /\ wire = <<>> /\ spc = "idle" /\ lineBuffer = <<>> /\ replyText = <<>>
    /\ replySessionId = "s1" /\ streamReply = NoReply

(* ---------------------------------------------------------------------- *)
(* Forum poll: GET /api/cron/forum-poll (prog = "poll")                    *)
(* ---------------------------------------------------------------------- *)

MaxComments == 2

MaxPolls == 2

Pollers == 1..MaxPolls

\* a date: kind "date" with time t; "none": absent; "invalid": a string that
\* new Date() cannot read
Date(k, t) == [k |-> k, t |-> t]

\* a ForumComment; ids are strings, written as sequences of characters;
\* content is "question" (mentions the target, worth answering), "low"
\* (mentions the target, low value) or "nomention"
Comment(threadId, id, content, createdAt) ==
    [threadId |-> threadId, id |-> id, content |-> content, createdAt |-> createdAt]

Comments ==
    { Comment(<<"t">>, <<"d">>, "question", Date("date", 1)),
      Comment(<<"t">>, <<"c", ":", "d">>, "question", Date("date", 2)),
      Comment(<<"t", ":", "c">>, <<"d">>, "question", Date("none", 0)),
      Comment(<<"t">>, <<"e">>, "question", Date("invalid", 0)),
      Comment(<<"t">>, <<"f">>, "low", Date("date", 2)),
      Comment(<<"t">>, <<"g">>, "nomention", Date("date", 2)) }

\* process.env.FORUM_MENTION_TARGET?.trim() || "@secondme"
mentionTarget == <<"@secondme">>

\* content.toLowerCase().includes(mentionTarget.toLowerCase())
mentionMatched(content) == content # "nomention"

\* nothing left, too short, only links or only punctuation once the mention
\* is stripped
isLowValueForumContent(content) == content = "low"

\* `${comment.threadId}:${comment.id}:${mentionTarget}`
dedupeKey(comment) ==
    comment.threadId \o <<":">> \o comment.id \o <<":">> \o mentionTarget

\* a mention_tasks row
MentionTask(key, comment, status, attempts, nextRunAt, result) ==
    [dedupeKey |-> key, threadId |-> comment.threadId, commentId |-> comment.id,
     content |-> comment.content, status |-> status, attempts |-> attempts,
     nextRunAt |-> nextRunAt, result |-> result]

\* what forum-dispatch can have made of a task: <<status, attempts,
\* nextRunAt, result>>
TaskProgress ==
    { <<"pending", 0, 0, "null">>, <<"running", 0, 0, "null">>,
      <<"done", 1, 0, "reply">>, <<"failed", 1, 2, "error">> }

\* prisma.mentionTask.upsert({ where: { dedupeKey }, create: {...}, update: {} })
UpsertTask(tasks, comment) ==
    IF \E t \in tasks : t.dedupeKey = dedupeKey(comment) THEN tasks
    ELSE tasks \cup {MentionTask(dedupeKey(comment), comment, "pending", 0, 0, "null")}

\* dt > newestSeenAt for a readable createdAt
NewestSeenAt(newest, createdAt) ==
    IF createdAt.k = "date" /\ createdAt.t > newest THEN createdAt.t ELSE newest

RECURSIVE SubSeqs(_)
\* the subsequences of a sequence
SubSeqs(seq) ==
    IF seq = <<>> THEN {<<>>}
    ELSE LET rest == SubSeqs(Tail(seq))
         IN  rest \cup {<<Head(seq)>> \o r : r \in rest}

PollOver(i) == pollPc[i] \in {"idle", "ok", "unauthorized", "failed"}

\* assertCronAuth throws "Unauthorized cron request": 401
PollUnauthorized(i) ==
    /\ prog = "poll" /\ PollOver(i)
    /\ pollPc' = [pollPc EXCEPT ![i] = "unauthorized"]
    /\ UNCHANGED <<forumComments, mentionTasks, lastSeenAt, pollCursor,
                   pollQueue, pollNewest>>
    /\ UNCHANGED <<roundsVars, streamVars, dispatchVars, hostVars, taskVars>>

\* the request is authorized and the cursor row is read (created on first use)
PollStart(i) ==
    /\ prog = "poll" /\ PollOver(i)
    /\ pollPc' = [pollPc EXCEPT ![i] = "list"]
    /\ pollCursor' = [pollCursor EXCEPT ![i] = lastSeenAt]
    /\ pollNewest' = [pollNewest EXCEPT ![i] = lastSeenAt]
    /\ pollQueue' = [pollQueue EXCEPT ![i] = <<>>]
    /\ UNCHANGED <<forumComments, mentionTasks, lastSeenAt>>
    /\ UNCHANGED <<roundsVars, streamVars, dispatchVars, hostVars, taskVars>>

\* forumClient.listMentions resolves with some of the forum's comments
PollList(i) ==
    /\ prog = "poll" /\ pollPc[i] = "list"
    /\ \E comments \in SubSeqs(forumComments) :
         pollQueue' = [pollQueue EXCEPT ![i] = comments]
    /\ pollPc' = [pollPc EXCEPT ![i] = "enqueue"]
    /\ UNCHANGED <<forumComments, mentionTasks, lastSeenAt, pollCursor, pollNewest>>
    /\ UNCHANGED <<roundsVars, streamVars, dispatchVars, hostVars, taskVars>>

\* one iteration of the enqueue loop
PollEnqueue(i) ==
    /\ prog = "poll" /\ pollPc[i] = "enqueue" /\ pollQueue[i] # <<>>
    /\ LET comment == Head(pollQueue[i])
       IN  IF ~mentionMatched(comment.content) \/ isLowValueForumContent(comment.content)
           THEN UNCHANGED <<mentionTasks, pollNewest>>
           ELSE /\ mentionTasks' = UpsertTask(mentionTasks, comment)
                /\ pollNewest' = [pollNewest EXCEPT
                                    ![i] = NewestSeenAt(pollNewest[i], comment.createdAt)]
    /\ pollQueue' = [pollQueue EXCEPT ![i] = Tail(pollQueue[i])]
    /\ UNCHANGED <<forumComments, lastSeenAt, pollPc, pollCursor>>
    /\ UNCHANGED <<roundsVars, streamVars, dispatchVars, hostVars, taskVars>>

\* after the loop: the cursor is moved when something newer was seen; 200
PollFinish(i) ==
    /\ prog = "poll" /\ pollPc[i] = "enqueue" /\ pollQueue[i] = <<>>
    /\ lastSeenAt' = IF pollNewest[i] > pollCursor[i] THEN pollNewest[i] ELSE lastSeenAt
    /\ pollPc' = [pollPc EXCEPT ![i] = "ok"]
    /\ UNCHANGED <<forumComments, mentionTasks, pollCursor, pollQueue, pollNewest>>
    /\ UNCHANGED <<roundsVars, streamVars, dispatchVars, hostVars, taskVars>>

\* an awaited call rejects (the cursor upsert, listMentions, a task upsert,
\* the cursor update): caught by the handler, 500
PollThrows(i) ==
    /\ prog = "poll"
    /\ \/ PollOver(i)
       \/ pollPc[i] = "list"
       \/ /\ pollPc[i] = "enqueue" /\ pollQueue[i] # <<>>
          /\ mentionMatched(Head(pollQueue[i]).content)
          /\ ~isLowValueForumContent(Head(pollQueue[i]).content)
       \/ /\ pollPc[i] = "enqueue" /\ pollQueue[i] = <<>>
          /\ pollNewest[i] > pollCursor[i]
    /\ pollPc' = [pollPc EXCEPT ![i] = "failed"]
    /\ UNCHANGED <<forumComments, mentionTasks, lastSeenAt, pollCursor,
                   pollQueue, pollNewest>>
    /\ UNCHANGED <<roundsVars, streamVars, dispatchVars, hostVars, taskVars>>

PollIdle ==
    /\ forumComments = <<>> /\ mentionTasks = {} /\ lastSeenAt = 0
    /\ pollPc = [i \in Pollers |-> "idle"]
    /\ pollCursor = [i \in Pollers |-> 0]
    /\ pollQueue = [i \in Pollers |-> <<>>]
    /\ pollNewest = [i \in Pollers |-> 0]

(* ---------------------------------------------------------------------- *)
(* Forum dispatch: GET /api/cron/forum-dispatch (prog = "dispatch") and    *)
(* the retry request POST /api/forum/tasks/[id]/retry (prog = "forumops")  *)
(* ---------------------------------------------------------------------- *)

MaxTasks == 2

MaxDispatchers == 2

\* the time up to which the clock is followed
MaxClock == 3

Dispatchers == 1..MaxDispatchers

MAX_ATTEMPTS == 5

BATCH_SIZE == 3

\* the comments whose tasks the table holds
TaskComments ==
    << Comment(<<"t">>, <<"d">>, "question", Date("date", 1)),
       Comment(<<"t">>, <<"e">>, "question", Date("invalid", 0)),
       Comment(<<"t">>, <<"h">>, "question", Date("none", 0)) >>

NoId == <<"?">>

\* ids a retry request can name: the tasks' and one that no task has
TaskIds == {dedupeKey(TaskComments[n]) : n \in 1..Len(TaskComments)} \cup {NoId}

\* Math.min(2 ** attempts, 30), the minutes until the next run
RetryMinutes(attempts) == IF 2 ^ attempts < 30 THEN 2 ^ attempts ELSE 30

\* the row with an id
TaskById(id) == CHOOSE t \in mentionTasks : t.dedupeKey = id

\* prisma.mentionTask.update({ where: { id }, data })
UpdateTask(id, status, attempts, nextRunAt, result) ==
    (mentionTasks \ {TaskById(id)}) \cup
    {[TaskById(id) EXCEPT !.status = status, !.attempts = attempts,
                          !.nextRunAt = nextRunAt, !.result = result]}

\* variant: every pending or failed task that is due, whatever its attempts
DueTasks_AnyAttempts(now) ==
    {t \in mentionTasks : t.status \in {"pending", "failed"} /\ t.nextRunAt <= now}

\* where: status in [pending, failed], attempts < MAX_ATTEMPTS, nextRunAt <= now
DueTasks(now) ==
    {t \in mentionTasks : /\ t.status \in {"pending", "failed"}
                          /\ t.attempts < MAX_ATTEMPTS
                          /\ t.nextRunAt <= now}

\* the orders in which a set of rows can be listed
Orderings(rows) ==
    {seq \in [1..Cardinality(rows) -> rows] :
        \A a, b \in 1..Cardinality(rows) : a # b => seq[a] # seq[b]}

\* variant: the lock looks at the id only
Lockable_Always(row, now) == TRUE

\* the where clause of the lock: status in [pending, failed], nextRunAt <= now
Lockable(row, now) == row.status \in {"pending", "failed"} /\ row.nextRunAt <= now

Dispatching == prog \in {"dispatch", "forumops"}

\* the task invocation i is working on, as it was fetched
CurrentTask(i) == Head(dispatchBatch[i])

\* invocation i holds the lock of its current task
Processing(i) == dispatchPc[i] \in {"generate", "reply", "mark_done", "mark_failed"}

\* the handler of invocation i returns a response: its locals are gone
Respond(i, status) ==
    /\ dispatchPc' = [dispatchPc EXCEPT ![i] = "idle"]
    /\ dispatchNow' = [dispatchNow EXCEPT ![i] = 0]
    /\ dispatchBatch' = [dispatchBatch EXCEPT ![i] = <<>>]
    /\ dispatchFallback' = [dispatchFallback EXCEPT ![i] = FALSE]
    /\ lastResponse' = status

\* the loop of invocation i goes on to the next task
NextTask(i) ==
    /\ dispatchPc' = [dispatchPc EXCEPT ![i] = "loop"]
    /\ dispatchBatch' = [dispatchBatch EXCEPT ![i] = Tail(dispatchBatch[i])]
    /\ dispatchFallback' = [dispatchFallback EXCEPT ![i] = FALSE]

\* invocation i moves to another control point
Goto(i, label) ==
    /\ dispatchPc' = [dispatchPc EXCEPT ![i] = label]
    /\ UNCHANGED <<dispatchNow, dispatchBatch>>

\* assertCronAuth throws "Unauthorized cron request": 401
DispatchUnauthorized(i) ==
    /\ Dispatching /\ dispatchPc[i] = "idle"
    /\ Respond(i, "401")
    /\ UNCHANGED <<clock, forumReplies, retryPc, retryId>>
    /\ UNCHANGED <<roundsVars, streamVars, pollVars, hostVars, taskVars>>

\* the request is authorized: const now = new Date()
DispatchStart(i) ==
    /\ Dispatching /\ dispatchPc[i] = "idle"
    /\ dispatchPc' = [dispatchPc EXCEPT ![i] = "fetch"]
    /\ dispatchNow' = [dispatchNow EXCEPT ![i] = clock]
    /\ UNCHANGED <<clock, dispatchBatch, dispatchFallback, forumReplies, retryPc,
                   retryId, lastResponse>>
    /\ UNCHANGED <<roundsVars, streamVars, pollVars, hostVars, taskVars>>

\* prisma.mentionTask.findMany resolves with at most BATCH_SIZE due tasks
\* (creation times are not kept: any order)
DispatchFetch(i) ==
    /\ Dispatching /\ dispatchPc[i] = "fetch"
    /\ \E seq \in Orderings(DueTasks(dispatchNow[i])) :
         dispatchBatch' = [dispatchBatch EXCEPT
                             ![i] = IF Len(seq) > BATCH_SIZE
                                    THEN SubSeq(seq, 1, BATCH_SIZE) ELSE seq]
    /\ dispatchPc' = [dispatchPc EXCEPT ![i] = "loop"]
    /\ UNCHANGED <<clock, dispatchNow, dispatchFallback, forumReplies, retryPc,
                   retryId, lastResponse>>
    /\ UNCHANGED <<roundsVars, streamVars, pollVars, hostVars, taskVars>>

\* the lock updateMany matches the row: it is now running
DispatchLock(i) ==
    /\ Dispatching /\ dispatchPc[i] = "loop" /\ dispatchBatch[i] # <<>>
    /\ LET row == TaskById(CurrentTask(i).dedupeKey)
       IN  /\ Lockable(row, dispatchNow[i])
           /\ mentionTasks' = UpdateTask(row.dedupeKey, "running", row.attempts,
                                         row.nextRunAt, row.result)
    /\ Goto(i, "generate")
    /\ UNCHANGED <<forumComments, lastSeenAt, pollPc, pollCursor, pollQueue, pollNewest>>
    /\ UNCHANGED <<clock, dispatchFallback, forumReplies, retryPc, retryId, lastResponse>>
    /\ UNCHANGED <<roundsVars, streamVars, hostVars, taskVars>>

\* if (lock.count === 0) continue
DispatchSkip(i) ==
    /\ Dispatching /\ dispatchPc[i] = "loop" /\ dispatchBatch[i] # <<>>
    /\ ~Lockable(TaskById(CurrentTask(i).dedupeKey), dispatchNow[i])
    /\ NextTask(i)
    /\ UNCHANGED <<clock, dispatchNow, forumReplies, retryPc, retryId, lastResponse>>
    /\ UNCHANGED <<roundsVars, streamVars, pollVars, hostVars, taskVars>>

\* generateForumReply resolves: fallback false
GenerateReturns(i) ==
    /\ Dispatching /\ dispatchPc[i] = "generate"
    /\ dispatchFallback' = [dispatchFallback EXCEPT ![i] = FALSE]
    /\ Goto(i, "reply")
    /\ UNCHANGED <<clock, forumReplies, retryPc, retryId, lastResponse>>
    /\ UNCHANGED <<roundsVars, streamVars, pollVars, hostVars, taskVars>>

\* generateForumReply rejects: buildFallbackForumReply(), fallback true
GenerateThrows(i) ==
    /\ Dispatching /\ dispatchPc[i] = "generate"
    /\ dispatchFallback' = [dispatchFallback EXCEPT ![i] = TRUE]
    /\ Goto(i, "reply")
    /\ UNCHANGED <<clock, forumReplies, retryPc, retryId, lastResponse>>
    /\ UNCHANGED <<roundsVars, streamVars, pollVars, hostVars, taskVars>>

\* forumClient.reply resolves: the forum holds one more reply to the comment
ReplyReturns(i) ==
    /\ Dispatching /\ dispatchPc[i] = "reply"
    /\ forumReplies' = [forumReplies EXCEPT ![CurrentTask(i).dedupeKey] = @ + 1]
    /\ Goto(i, "mark_done")
    /\ UNCHANGED <<clock, dispatchFallback, retryPc, retryId, lastResponse>>
    /\ UNCHANGED <<roundsVars, streamVars, pollVars, hostVars, taskVars>>

\* forumClient.reply rejects: to the catch of the task
ReplyThrows(i) ==
    /\ Dispatching /\ dispatchPc[i] = "reply"
    /\ Goto(i, "mark_failed")
    /\ UNCHANGED <<clock, dispatchFallback, forumReplies, retryPc, retryId, lastResponse>>
    /\ UNCHANGED <<roundsVars, streamVars, pollVars, hostVars, taskVars>>

\* variant: the attempts of the row are kept
NextAttempts_Same(task) == task.attempts

\* const attempts = task.attempts + 1
NextAttempts(task) == task.attempts + 1

\* variant: a generation failure is recorded as an error
DoneResult_Error(fallback) == IF fallback THEN "error" ELSE "reply"

\* JSON.stringify(resultPayload)
DoneResult(fallback) == IF fallback THEN "fallback" ELSE "reply"

\* the update to done resolves; next task
MarkDoneReturns(i) ==
    /\ Dispatching /\ dispatchPc[i] = "mark_done"
    /\ mentionTasks' = UpdateTask(CurrentTask(i).dedupeKey, "done",
                                  NextAttempts(CurrentTask(i)),
                                  TaskById(CurrentTask(i).dedupeKey).nextRunAt,
                                  DoneResult(dispatchFallback[i]))
    /\ NextTask(i)
    /\ UNCHANGED <<forumComments, lastSeenAt, pollPc, pollCursor, pollQueue, pollNewest>>
    /\ UNCHANGED <<clock, dispatchNow, forumReplies, retryPc, retryId, lastResponse>>
    /\ UNCHANGED <<roundsVars, streamVars, hostVars, taskVars>>

\* the update to done rejects: to the catch of the task
MarkDoneThrows(i) ==
    /\ Dispatching /\ dispatchPc[i] = "mark_done"
    /\ Goto(i, "mark_failed")
    /\ UNCHANGED <<clock, dispatchFallback, forumReplies, retryPc, retryId, lastResponse>>
    /\ UNCHANGED <<roundsVars, streamVars, pollVars, hostVars, taskVars>>

\* the update to failed resolves, nextRunAt = nextRetryAt(attempts); next task
MarkFailedReturns(i) ==
    /\ Dispatching /\ dispatchPc[i] = "mark_failed"
    /\ mentionTasks' = UpdateTask(CurrentTask(i).dedupeKey, "failed",
                                  NextAttempts(CurrentTask(i)),
                                  clock + RetryMinutes(NextAttempts(CurrentTask(i))),
                                  "error")
    /\ NextTask(i)
    /\ UNCHANGED <<forumComments, lastSeenAt, pollPc, pollCursor, pollQueue, pollNewest>>
    /\ UNCHANGED <<clock, dispatchNow, forumReplies, retryPc, retryId, lastResponse>>
    /\ UNCHANGED <<roundsVars, streamVars, hostVars, taskVars>>

\* the update to failed rejects: out of the loop to the catch of the handler, 500
MarkFailedThrows(i) ==
    /\ Dispatching /\ dispatchPc[i] = "mark_failed"
    /\ Respond(i, "500")
    /\ UNCHANGED <<clock, forumReplies, retryPc, retryId>>
    /\ UNCHANGED <<roundsVars, streamVars, pollVars, hostVars, taskVars>>

\* the loop is over: 200
DispatchFinish(i) ==
    /\ Dispatching /\ dispatchPc[i] = "loop" /\ dispatchBatch[i] = <<>>
    /\ Respond(i, "200")
    /\ UNCHANGED <<clock, forumReplies, retryPc, retryId>>
    /\ UNCHANGED <<roundsVars, streamVars, pollVars, hostVars, taskVars>>

\* new ForumClient(), findMany or the lock rejects: catch of the handler, 500
DispatchThrows(i) ==
    /\ Dispatching
    /\ \/ dispatchPc[i] = "fetch"
       \/ dispatchPc[i] = "loop" /\ dispatchBatch[i] # <<>>
    /\ Respond(i, "500")
    /\ UNCHANGED <<clock, forumReplies, retryPc, retryId>>
    /\ UNCHANGED <<roundsVars, streamVars, pollVars, hostVars, taskVars>>

\* time passes until a task's nextRunAt
TimePasses ==
    /\ Dispatching
    /\ \E t \in mentionTasks :
         /\ t.nextRunAt > clock /\ t.nextRunAt <= MaxClock
         /\ clock' = t.nextRunAt
    /\ UNCHANGED <<dispatchPc, dispatchNow, dispatchBatch, dispatchFallback,
                   forumReplies, retryPc, retryId, lastResponse>>
    /\ UNCHANGED <<roundsVars, streamVars, pollVars, hostVars, taskVars>>

\* findUnique finds no task: 404
RetryNotFound ==
    /\ prog = "forumops" /\ retryPc = "idle"
    /\ \E id \in TaskIds : \A t \in mentionTasks : t.dedupeKey # id
    /\ lastResponse' = "404"
    /\ UNCHANGED <<clock, dispatchPc, dispatchNow, dispatchBatch,
                   dispatchFallback, forumReplies, retryPc, retryId>>
    /\ UNCHANGED <<roundsVars, streamVars, pollVars, hostVars, taskVars>>

\* task.status !== failed: 400
RetryRejected ==
    /\ prog = "forumops" /\ retryPc = "idle"
    /\ \E t \in mentionTasks : t.status # "failed"
    /\ lastResponse' = "400"
    /\ UNCHANGED <<clock, dispatchPc, dispatchNow, dispatchBatch,
                   dispatchFallback, forumReplies, retryPc, retryId>>
    /\ UNCHANGED <<roundsVars, streamVars, pollVars, hostVars, taskVars>>

\* findUnique finds the task in status failed
RetryAccepted ==
    /\ prog = "forumops" /\ retryPc = "idle"
    /\ \E t \in mentionTasks : t.status = "failed" /\ retryId' = t.dedupeKey
    /\ retryPc' = "update"
    /\ UNCHANGED <<clock, dispatchPc, dispatchNow, dispatchBatch,
                   dispatchFallback, forumReplies, lastResponse>>
    /\ UNCHANGED <<roundsVars, streamVars, pollVars, hostVars, taskVars>>

\* the update resolves: pending, nextRunAt = new Date() read from a clock
\* that has moved on, result null; 200
RetryUpdateReturns ==
    /\ prog = "forumops" /\ retryPc = "update"
    /\ clock < MaxClock
    /\ clock' = clock + 1
    /\ mentionTasks' = UpdateTask(retryId, "pending", TaskById(retryId).attempts,
                                  clock', "null")
    /\ retryPc' = "idle"
    /\ retryId' = NoId
    /\ lastResponse' = "200"
    /\ UNCHANGED <<forumComments, lastSeenAt, pollPc, pollCursor, pollQueue, pollNewest>>
    /\ UNCHANGED <<dispatchPc, dispatchNow, dispatchBatch, dispatchFallback, forumReplies>>
    /\ UNCHANGED <<roundsVars, streamVars, hostVars, taskVars>>

\* the update rejects: 500
RetryUpdateThrows ==
    /\ prog = "forumops" /\ retryPc = "update"
    /\ retryPc' = "idle"
    /\ retryId' = NoId
    /\ lastResponse' = "500"
    /\ UNCHANGED <<clock, dispatchPc, dispatchNow, dispatchBatch,
                   dispatchFallback, forumReplies>>
    /\ UNCHANGED <<roundsVars, streamVars, pollVars, hostVars, taskVars>>

DispatchIdle ==
    /\ clock = 0
    /\ dispatchPc = [i \in Dispatchers |-> "idle"]
    /\ dispatchNow = [i \in Dispatchers |-> 0]
    /\ dispatchBatch = [i \in Dispatchers |-> <<>>]
    /\ dispatchFallback = [i \in Dispatchers |-> FALSE]
    /\ forumReplies = [id \in TaskIds |-> 0]
    /\ retryPc = "idle"
    /\ retryId = NoId
    /\ lastResponse = "none"

RoundsIdle == envRounds = Missing /\ configuredRounds = 0

\* the programs beside the orchestrators and the task runner are not running
SideIdle == RoundsIdle /\ StreamIdle /\ PollIdle /\ DispatchIdle

(* ---------------------------------------------------------------------- *)
(* Specification                                                           *)
(* ---------------------------------------------------------------------- *)

Init ==
    /\ prog \in {"chat", "forum"}
    /\ agentsEnabled \in (IF prog = "chat" THEN BOOLEAN ELSE {TRUE})
    /\ debateRounds \in 1..MaxRounds
    /\ pc = IF prog = "chat" THEN "start" ELSE "f_round"
    /\ round = 1
    /\ pathIdx = 1
    /\ pathTurns = [p \in Paths |-> <<>>]
    /\ constraints = [p \in Paths |-> Undefined]
    /\ failedPaths = {}
    /\ reports = [p \in Paths |-> NoReport]
    /\ systemAgentFailed = FALSE
    /\ mainSessionId = "s1"
    /\ finalAnswerText = ""
    /\ runId = FALSE
    /\ pathRunIdMap = {}
    /\ events = <<>>
    /\ closeCalls = 0
    /\ dbRunStatus = "none"
    /\ dbPathStatus = [p \in Paths |-> "none"]
    /\ dbAssistant = "none"
    /\ inflight = NoneInflight
    /\ calls = EmptyBag
    /\ callFailedAt = [p \in Paths |-> 0]
    /\ escaped = "none"
    /\ writeThrew = FALSE
    /\ TaskIdle
    /\ SideIdle

Next == ChatNext \/ ForumNext

Spec == Init /\ [][Next]_vars

\* one callJudge invocation; the orchestrators are not running
TaskInit ==
    /\ prog = "judge"
    /\ agentsEnabled = TRUE
    /\ debateRounds = 1
    /\ pc = "idle"
    /\ round = 1
    /\ pathIdx = 1
    /\ pathTurns = [p \in Paths |-> <<>>]
    /\ constraints = [p \in Paths |-> Undefined]
    /\ failedPaths = {}
    /\ reports = [p \in Paths |-> NoReport]
    /\ systemAgentFailed = FALSE
    /\ mainSessionId = "s1"
    /\ finalAnswerText = ""
    /\ runId = FALSE
    /\ pathRunIdMap = {}
    /\ events = <<>>
    /\ closeCalls = 0
    /\ dbRunStatus = "none"
    /\ dbPathStatus = [p \in Paths |-> "none"]
    /\ dbAssistant = "none"
    /\ inflight = NoneInflight
    /\ calls = EmptyBag
    /\ callFailedAt = [p \in Paths |-> 0]
    /\ escaped = "none"
    /\ writeThrew = FALSE
    /\ tpc = "t_start"
    /\ hasToken \in BOOLEAN
    /\ attempt = 0
    /\ apiCalls = 0
    /\ fetched = <<>>
    /\ firstError = NoError
    /\ thrown = NoError
    /\ judgeResult = NoJudgeResult
    /\ SideIdle

TaskSpec == TaskInit /\ [][TaskNext]_vars

\* the orchestrators are not running (prog is set by the program that runs)
HostIdle ==
    /\ agentsEnabled = TRUE
    /\ debateRounds = 1
    /\ pc = "idle"
    /\ round = 1
    /\ pathIdx = 1
    /\ pathTurns = [p \in Paths |-> <<>>]
    /\ constraints = [p \in Paths |-> Undefined]
    /\ failedPaths = {}
    /\ reports = [p \in Paths |-> NoReport]
    /\ systemAgentFailed = FALSE
    /\ mainSessionId = "s1"
    /\ finalAnswerText = ""
    /\ runId = FALSE
    /\ pathRunIdMap = {}
    /\ events = <<>>
    /\ closeCalls = 0
    /\ dbRunStatus = "none"
    /\ dbPathStatus = [p \in Paths |-> "none"]
    /\ dbAssistant = "none"
    /\ inflight = NoneInflight
    /\ calls = EmptyBag
    /\ callFailedAt = [p \in Paths |-> 0]
    /\ escaped = "none"
    /\ writeThrew = FALSE

\* one evaluation of getDebateRounds() for one value of the option
RoundsInit ==
    /\ prog = "config"
    /\ HostIdle /\ TaskIdle /\ StreamIdle /\ PollIdle /\ DispatchIdle
    /\ envRounds \in EnvRoundsValues
    /\ configuredRounds = 0

RoundsNext == ReadDebateRounds

RoundsSpec == RoundsInit /\ [][RoundsNext]_vars

\* one requestSecondMeReply call with params.sessionId = "s1" against one
\* upstream body of at most MaxLines lines
StreamInit ==
    /\ prog = "stream"
    /\ HostIdle /\ TaskIdle /\ RoundsIdle /\ PollIdle /\ DispatchIdle
    /\ upstreamLines \in UNION {[1..n -> Lines] : n \in 0..MaxLines}
    /\ upstreamTerminated \in BOOLEAN
    /\ upstreamOk \in BOOLEAN
    /\ wire = Bytes(upstreamLines, upstreamTerminated)
    /\ spc = "request"
    /\ lineBuffer = <<>>
    /\ replyText = <<>>
    /\ replySessionId = "s1"
    /\ streamReply = NoReply

StreamNext == RequestRejected \/ RequestAccepted \/ ReadChunk \/ ReadDone

StreamSpec == StreamInit /\ [][StreamNext]_vars

\* forum-poll invocations against a forum of at most MaxComments comments;
\* the first comment's task may exist already, in any state forum-dispatch
\* leaves a task in
PollInit ==
    /\ prog = "poll"
    /\ HostIdle /\ TaskIdle /\ RoundsIdle /\ StreamIdle /\ DispatchIdle
    /\ forumComments \in UNION {[1..n -> Comments] : n \in 0..MaxComments}
    /\ mentionTasks \in
         {{}} \cup
         { {MentionTask(dedupeKey(forumComments[1]), forumComments[1],
                        p[1], p[2], p[3], p[4])} :
             p \in IF /\ forumComments # <<>>
                      /\ mentionMatched(forumComments[1].content)
                      /\ ~isLowValueForumContent(forumComments[1].content)
                   THEN TaskProgress ELSE {} }
    /\ lastSeenAt = 0
    /\ pollPc = [i \in Pollers |-> "idle"]
    /\ pollCursor = [i \in Pollers |-> 0]
    /\ pollQueue = [i \in Pollers |-> <<>>]
    /\ pollNewest = [i \in Pollers |-> 0]

PollNext ==
    \E i \in Pollers :
        \/ PollUnauthorized(i)
        \/ PollStart(i)
        \/ PollList(i)
        \/ PollEnqueue(i)
        \/ PollFinish(i)
        \/ PollThrows(i)

PollSpec == PollInit /\ [][PollNext]_vars

\* what a task of the table starts from, <<status, attempts, nextRunAt,
\* result>>: as forum-poll created it, or failed one attempt short of the cap
\* with its retry time reached
InitialProgress ==
    { <<"pending", 0, 0, "null">>, <<"failed", MAX_ATTEMPTS - 1, 0, "error">> }

\* the table holds the tasks of the first comments; no forum-poll invocation
\* is running
TasksInit ==
    /\ HostIdle /\ TaskIdle /\ RoundsIdle /\ StreamIdle /\ DispatchIdle
    /\ forumComments = <<>> /\ lastSeenAt = 0
    /\ pollPc = [i \in Pollers |-> "idle"]
    /\ pollCursor = [i \in Pollers |-> 0]
    /\ pollQueue = [i \in Pollers |-> <<>>]
    /\ pollNewest = [i \in Pollers |-> 0]
    /\ \E n \in 1..MaxTasks :
         \E progress \in [1..n -> InitialProgress] :
           mentionTasks =
             {MentionTask(dedupeKey(TaskComments[k]), TaskComments[k],
                          progress[k][1], progress[k][2], progress[k][3],
                          progress[k][4]) : k \in 1..n}

DispatchInit == prog = "dispatch" /\ TasksInit

\* the steps of invocation i
DispatchBy(i) ==
    \/ DispatchUnauthorized(i)
    \/ DispatchStart(i)
    \/ DispatchFetch(i)
    \/ DispatchLock(i)
    \/ DispatchSkip(i)
    \/ GenerateReturns(i)
    \/ GenerateThrows(i)
    \/ ReplyReturns(i)
    \/ ReplyThrows(i)
    \/ MarkDoneReturns(i)
    \/ MarkDoneThrows(i)
    \/ MarkFailedReturns(i)
    \/ MarkFailedThrows(i)
    \/ DispatchFinish(i)
    \/ DispatchThrows(i)

DispatchNext ==
    \/ TimePasses
    \/ \E i \in Dispatchers : DispatchBy(i)

\* concurrent forum-dispatch invocations
DispatchSpec == DispatchInit /\ [][DispatchNext]_vars

OpsInit == prog = "forumops" /\ TasksInit

OpsNext ==
    \/ TimePasses
    \/ DispatchBy(1)
    \/ RetryNotFound
    \/ RetryRejected
    \/ RetryAccepted
    \/ RetryUpdateReturns
    \/ RetryUpdateThrows

\* forum-dispatch invocations one after the other, and retry requests
OpsSpec == OpsInit /\ [][OpsNext]_vars

(* ---------------------------------------------------------------------- *)
(* Properties                                                              *)
(* ---------------------------------------------------------------------- *)

RoundKinds == {"coach", "responder", "judge"}

\* the calls issued so far
IssuedCalls == BagToSet(calls)

\* paths one of whose coach, responder or judge calls threw
ThrewPaths == {p \in Paths : callFailedAt[p] > 0}

\* the round loop has run to its end
RoundLoopOver == round > debateRounds

LastEvent == events[Len(events)]

\* C1 (path isolation): the failed set holds only paths one of whose own
\* coach/responder/judge calls threw, and when the round loop is over every
\* path without a throwing call has a transcript of exactly debateRounds turns.
C1_PathIsolation ==
    /\ failedPaths \subseteq ThrewPaths
    /\ RoundLoopOver =>
         \A p \in Paths \ ThrewPaths : Len(pathTurns[p]) = debateRounds

\* a path failed in round 1 of a run of at least two rounds and another path
\* completed all rounds
C1_Witness ==
    /\ RoundLoopOver /\ debateRounds >= 2
    /\ \E p \in Paths : callFailedAt[p] = 1 /\ p \in failedPaths
    /\ \E q \in Paths : callFailedAt[q] = 0 /\ Len(pathTurns[q]) = debateRounds

\* C2 (terminal signal): once the stream of POST /api/chat is closed its last
\* event is `done`, at most one `error` event was emitted, and an `error`
\* event is directly followed by `done`.
C2_DoneIsLast ==
    (prog = "chat" /\ closeCalls > 0) =>
        /\ Len(events) > 0 /\ LastEvent.event = "done"
        /\ Cardinality({i \in 1..Len(events) : events[i].event = "error"}) <= 1
        /\ \A i \in 1..Len(events) :
              events[i].event = "error" =>
                  i + 1 = Len(events) /\ events[i + 1].event = "done"

SynthesizeCalls == {c \in IssuedCalls : c.kind = "synthesize"}

\* control points before the gate has been evaluated
BeforeGate == {"start", "create_run", "round_loop", "path_loop", "persist_turn",
               "report_loop", "await_report", "persist_report",
               "persist_path_failed", "gate",
               "f_round", "f_await", "f_report_loop", "f_await_report"} \cup RoundAwaits

RunOver == pc \in {"closed", "f_returned", "f_thrown"}

\* C3 (synthesis precondition): callSynthesize is called at most once and only
\* with the reports of all three paths; once the gate has been passed with three
\* reports present the call has been made; so at the end of a run the call was
\* made if and only if all three reports exist.
C3_SynthesisIffThreeReports ==
    /\ \A c \in SynthesizeCalls : c.reports = Paths /\ CopiesIn(c, calls) = 1
    /\ (ReportSet = Paths /\ pc \notin BeforeGate) => SynthesizeCalls # {}
    /\ RunOver => (SynthesizeCalls # {} <=> ReportSet = Paths)

\* a run ended after callSynthesize was called with the three reports
C3_Witness ==
    /\ RunOver
    /\ SynthesizeCalls # {}
    /\ ReportSet = Paths

\* the next_constraint of the judge of path p in round r as the transcript has it
\* (round 0: nothing carried)
JudgedConstraint(p, r) ==
    IF r = 0 THEN Undefined ELSE pathTurns[p][r].judge.next_constraint

\* C4 (constraint carry): every coach, responder and judge call of round r of a
\* path follows the path's completed round r-1, the coach context and the judge
\* input carry exactly the next_constraint of that path's judge of round r-1
\* (undefined in round 1), the responder prompt carries the same value (undefined
\* is printed as `none`), and a carried constraint comes from the path's own judge.
C4_ConstraintCarry ==
    \A c \in IssuedCalls :
        c.kind \in RoundKinds =>
            /\ Len(pathTurns[c.path]) >= c.round - 1
            /\ c.kind \in {"coach", "judge"} =>
                   c.constraint = JudgedConstraint(c.path, c.round - 1)
            /\ c.kind = "responder" =>
                   c.constraint = PromptConstraint(JudgedConstraint(c.path, c.round - 1))
            /\ c.round > 1 => c.constraint.path = c.path
            /\ c.round = 1 => c.constraint \in {Undefined, None}

\* a second-round judge call of the last path was issued after all three paths
\* completed round 1
C4_Witness ==
    /\ \E c \in IssuedCalls :
          c.kind = "judge" /\ c.round = 2 /\ c.path = paths[3]
    /\ \A p \in Paths : Len(pathTurns[p]) >= 1

IsPrefix(s, t) == Len(s) <= Len(t) /\ SubSeq(t, 1, Len(s)) = s

TurnsNumbered ==
    \A p \in Paths : \A i \in 1..Len(pathTurns[p]) : pathTurns[p][i].round = i

TranscriptEnds ==
    \A p \in Paths :
        /\ callFailedAt[p] > 0 => Len(pathTurns[p]) = callFailedAt[p] - 1
        /\ (callFailedAt[p] = 0 /\ RoundLoopOver) => Len(pathTurns[p]) = debateRounds

\* C5 (round ordering): the turn at index i (from 0) has round i+1, a path that
\* never failed ends with the turns of rounds 1..debateRounds, a failed path
\* holds exactly the rounds it completed before failing, and every step leaves
\* the existing turns of every transcript in place.
C5_RoundOrdering ==
    /\ [](TurnsNumbered /\ TranscriptEnds)
    /\ [][\A p \in Paths : IsPrefix(pathTurns[p], pathTurns'[p])]_vars

\* a path failed in round 2 with its round-1 turn kept, another has two turns
C5_Witness ==
    /\ \E p \in Paths : callFailedAt[p] = 2 /\ Len(pathTurns[p]) = 1
    /\ \E q \in Paths : Len(pathTurns[q]) = 2

\* the coach/responder/judge calls issued for a path, with their counts
RoundCallsOf(b, p) ==
    {<<c, CopiesIn(c, b)>> : c \in {d \in BagToSet(b) : d.path = p /\ d.kind \in RoundKinds}}

\* the debate_round/judge_round events of a path
RoundEventsOf(evs, p) ==
    SelectSeq(evs, LAMBDA e : e.path = p /\ e.event \in {"debate_round", "judge_round"})

\* C6 (a failed path is terminal): in every step taken while a path is in the
\* failed set, no coach, responder or judge call is issued for it, its transcript
\* is unchanged, no debate_round or judge_round event is emitted for it, and it
\* stays in the failed set.
C6_FailedIsTerminal ==
    [][\A p \in failedPaths :
          /\ p \in failedPaths'
          /\ pathTurns'[p] = pathTurns[p]
          /\ RoundCallsOf(calls', p) = RoundCallsOf(calls, p)
          /\ RoundEventsOf(events', p) = RoundEventsOf(events, p)]_vars

\* a later round is running for another path while a path is failed
C6_Witness ==
    \E p \in failedPaths :
        /\ callFailedAt[p] > 0 /\ callFailedAt[p] < round /\ round <= debateRounds
        /\ \E q \in Paths \ {p} : inflight[q] # "none"

\* the round-r attempt of path q has resolved (turn appended, or a call threw)
AttemptResolved(q, r) ==
    \/ Len(pathTurns[q]) >= r
    \/ (callFailedAt[q] > 0 /\ callFailedAt[q] <= r)

\* C7 (round join barrier): whenever a call of round r+1 has been issued for
\* some path, the round-r attempt of every path has resolved.
C7_RoundJoinBarrier ==
    \A c \in IssuedCalls :
        (c.kind \in RoundKinds /\ c.round > 1) =>
            \A q \in Paths : AttemptResolved(q, c.round - 1)

\* generateForumReply issued a round-2 call after one path failed in round 1
\* and another completed it
C7_Witness ==
    /\ prog = "forum"
    /\ \E c \in IssuedCalls : c.kind = "coach" /\ c.round = 2
    /\ \E q \in Paths : callFailedAt[q] = 1
    /\ inflight # NoneInflight

\* C8 (concurrent paths within a round): in POST /api/chat the round-r calls of
\* the paths are issued without waiting for each other: once any call of round r
\* of one path has been answered (its responder or judge call is issued), the
\* round-r coach call of every still-running path has been issued as well.
C8_IssuedWithoutWaiting ==
    prog = "chat" =>
        \A p \in Paths :
            (\E d \in IssuedCalls :
                d.path = p /\ d.round = round /\ d.kind \in {"responder", "judge"}) =>
                \A q \in Paths \ failedPaths :
                    \E c \in IssuedCalls :
                        c.kind = "coach" /\ c.path = q /\ c.round = round

\* the control point and the events that follow a successful write
WriteContinuation ==
    CASE pc = "create_run" -> "round_loop"
      [] pc \in {"persist_turn", "persist_path_failed", "persist_report"} -> AfterPathWrite
      [] pc \in {"persist_run", "persist_run_failed"} -> AfterRunWrite
      [] OTHER -> "closed"

WriteEvents ==
    CASE pc = "save_assistant" -> TailEvents
      [] pc = "save_direct" -> <<EvDone(mainSessionId)>>
      [] OTHER -> <<>>

\* C9 (persistence is advisory): every step that ends a persistence write of
\* the running stream, whether the write succeeded or threw, leaves the
\* in-memory orchestration state unchanged, emits exactly the events that
\* follow a successful write and continues at the same control point.
C9_PersistenceAdvisory ==
    [][(prog = "chat" /\ pc \in PersistenceWrites) =>
          /\ orchVars' = orchVars
          /\ events' = events \o WriteEvents
          /\ pc' = WriteContinuation]_vars

\* C10 (post-debate stage failures do not abort the stream): when a report,
\* synthesis or evaluation call threw, the closed stream ends with the global
\* `path_status` partial_failed followed by `done`.
C10_StageFailureKeepsTail ==
    (prog = "chat" /\ pc = "closed"
       /\ escaped \in {"await_report", "await_synth", "await_eval"}) =>
        /\ Len(events) >= 2
        /\ events[Len(events) - 1] = EvPathStatus("-", "partial_failed")
        /\ LastEvent.event = "done"

\* the agents-mode stream of POST /api/chat has been closed
AgentsClosed == prog = "chat" /\ agentsEnabled /\ pc = "closed"

EventNames == {events[i].event : i \in 1..Len(events)}

\* number of issued calls of one kind for one path ("-": the main session)
IssuedCount(kind, path) ==
    LET cs == {c \in IssuedCalls : c.kind = kind /\ c.path = path}
        Sum[S \in SUBSET cs] ==
            IF S = {} THEN 0
            ELSE LET c == CHOOSE x \in S : TRUE
                 IN  CopiesIn(c, calls) + Sum[S \ {c}]
    IN  Sum[cs]

\* C11 (failed paths are surfaced through path_report): every path that got a
\* per-path `path_status` failed event (it failed in some round or produced no
\* turn) also has a `path_report` event carrying an error in the stream, when
\* the stream has closed without any exception reaching the outer catch.
C11_FailedPathReported ==
    (AgentsClosed /\ escaped = "none") =>
        \A p \in Paths :
            (\E i \in 1..Len(events) : events[i] = EvPathStatus(p, "failed")) =>
                \E j \in 1..Len(events) :
                    /\ events[j].event = "path_report"
                    /\ events[j].path = p
                    /\ events[j].err

\* C12 (report aggregation): when the stream has closed, callPathReport was
\* invoked exactly once for each path that never failed and has a turn, never
\* for a failed path, and each skipped path has a per-path `path_status` failed
\* event and no report.
C12_ReportAggregation ==
    AgentsClosed =>
        \A p \in Paths :
            IF ReportSkipped(p)
            THEN /\ IssuedCount("report", p) = 0
                 /\ \E i \in 1..Len(events) : events[i] = EvPathStatus(p, "failed")
                 /\ ~HasReport(p)
            ELSE IssuedCount("report", p) = 1

\* C13 (synthesis-precondition fallback): when the stream has closed with fewer
\* than three reports, there is no `synthesis` or `evaluation` event and no such
\* call, exactly one main-session responder call was made and `final_answer`
\* emitted, the global `path_status` is partial_failed, and the run row, when it
\* exists and no write threw, is `failed`.
C13_FallbackBranch ==
    (AgentsClosed /\ ReportSet # Paths) =>
        /\ EventNames \cap {"synthesis", "evaluation"} = {}
        /\ IssuedCount("synthesize", "-") = 0
        /\ IssuedCount("evaluate", "-") = 0
        /\ IssuedCount("responder_main", "-") = 1
        /\ "final_answer" \in EventNames
        /\ \E i \in 1..Len(events) : events[i] = EvPathStatus("-", "partial_failed")
        /\ (runId /\ ~writeThrew) => dbRunStatus = "failed"

\* C14 (persisted run lifecycle): when the stream has closed, the run row was
\* created and no write threw, the run status is `done` if synthesis and
\* evaluation both succeeded and `failed` otherwise, never `running`.
C14_RunLifecycle ==
    (AgentsClosed /\ runId /\ ~writeThrew) =>
        dbRunStatus = IF {"synthesis", "evaluation"} \subseteq EventNames
                      THEN "done" ELSE "failed"

\* position of the first event of a name (0: none)
FirstIndex(name) ==
    IF name \in EventNames
    THEN CHOOSE i \in 1..Len(events) :
            /\ events[i].event = name
            /\ \A j \in 1..(i - 1) : events[j].event # name
    ELSE 0

\* C15 (final answer precedes evaluation): in the synthesis branch the events
\* come in the order synthesis, final_answer, evaluation; final_answer is in the
\* stream when the evaluation call is issued; and no step, a failing evaluation
\* call included, removes or replaces an emitted event.
C15_FinalAnswerBeforeEvaluation ==
    /\ [](prog = "chat" =>
            /\ IssuedCount("evaluate", "-") > 0 =>
                 /\ FirstIndex("synthesis") > 0
                 /\ FirstIndex("synthesis") < FirstIndex("final_answer")
            /\ "evaluation" \in EventNames =>
                 /\ FirstIndex("final_answer") > 0
                 /\ FirstIndex("final_answer") < FirstIndex("evaluation"))
    /\ [][IsPrefix(events, events')]_vars

\* the evaluation call threw after final_answer was emitted
C15_Witness ==
    /\ AgentsClosed /\ escaped = "await_eval"
    /\ "final_answer" \in EventNames

\* the callJudge invocation has returned or thrown
TaskOver == prog = "judge" /\ tpc \in {"t_returned", "t_thrown"}

\* the call was answered with a success response whose message text holds no
\* JSON object
NoObjectText(b) ==
    /\ b.fetch = "response" /\ b.status = "200"
    /\ b.body \in {"json_content", "json_other"}
    /\ b.text.body \notin ObjectBodies

\* the call was cut by the timeout / answered with a non-success response
TimedOut(b) == b.fetch = "abort" \/ (b.fetch = "response" /\ b.body = "abort")
HttpError(b) == b.fetch = "response" /\ b.status # "200" /\ b.body # "abort"

\* C16 (single retry cap): one runJsonTask invocation issues at most 2 Messages
\* API calls; when every call is answered with text that holds no JSON object,
\* exactly 2 calls are issued and the invocation throws without a result.
C16_SingleRetryCap ==
    prog = "judge" =>
        /\ apiCalls <= 2
        /\ Len(fetched) <= apiCalls
        /\ (TaskOver /\ hasToken
              /\ \A i \in 1..Len(fetched) : NoObjectText(fetched[i])) =>
                /\ apiCalls = 2
                /\ tpc = "t_thrown"
                /\ judgeResult = NoJudgeResult

\* two answers without a JSON object, the second of a different shape
C16_Witness ==
    /\ TaskOver /\ apiCalls = 2 /\ Len(fetched) = 2
    /\ NoObjectText(fetched[1]) /\ NoObjectText(fetched[2])
    /\ fetched[1].text.body = "plain" /\ fetched[2].text.body = "list"

\* C17 (retry is for JSON repair only): a second call is issued only after a
\* first response that was received and held no JSON object; a first attempt
\* ending in an HTTP error response or a timeout fails the task with exactly
\* one call issued.
C17_RetryOnlyForJsonRepair ==
    prog = "judge" =>
        /\ apiCalls = 2 => NoObjectText(fetched[1])
        /\ (Len(fetched) >= 1 /\ (HttpError(fetched[1]) \/ TimedOut(fetched[1]))) =>
              tpc = "t_thrown" /\ apiCalls = 1

\* the message an error response carries (error.message, else message)
UpstreamMessage(b) == IF b.errorMessage # "" THEN b.errorMessage ELSE b.message

\* C18 (timeout mapping): a call cut by the timeout makes the task fail with
\* the timeout error, a non-success response makes it fail with the HTTP
\* failure carrying the upstream message, and a timeout is never reported as
\* an HTTP failure.
C18_TimeoutMapping ==
    TaskOver =>
        \A i \in 1..Len(fetched) :
            /\ TimedOut(fetched[i]) =>
                  /\ tpc = "t_thrown"
                  /\ thrown.message = "Messages API timeout"
            /\ HttpError(fetched[i]) =>
                  /\ tpc = "t_thrown"
                  /\ thrown.message = "Messages API failed: "
                  /\ UpstreamMessage(fetched[i]) # "" =>
                        thrown.detail = UpstreamMessage(fetched[i])

\* callJudge returned a JudgeOutput; the object of the last answer
JudgeReturned == prog = "judge" /\ tpc = "t_returned"
LastJson == fetched[Len(fetched)].text.json

\* the raw value is a number or spells one
FiniteRaw(v) == v.t \in {"number", "numeric_string"}
Above100(v) == FiniteRaw(v) /\ (v.i > 100 \/ (v.i = 100 /\ v.f > 0))
Below0(v) == (FiniteRaw(v) /\ v.i < 0) \/ (v.t = "overflow" /\ v.i < 0)

\* the last call was answered with a message text that holds a JSON object
AnsweredWithObject ==
    /\ Len(fetched) >= 1
    /\ fetched[Len(fetched)].fetch = "response"
    /\ fetched[Len(fetched)].status = "200"
    /\ fetched[Len(fetched)].body = "json_content"
    /\ fetched[Len(fetched)].text.body \in ObjectBodies

\* C19 as stated: the returned round_score is an integer in [0,100], every raw
\* value above 100 (a number literal beyond the double range included) gives
\* 100, every raw value below 0 gives 0, and no raw score makes the call fail.
C19_ScoreClampedAsStated ==
    /\ JudgeReturned =>
        /\ judgeResult.round_score \in 0..100
        /\ (Above100(LastJson.round_score)
              \/ (LastJson.round_score.t = "overflow" /\ LastJson.round_score.i > 0)) =>
                judgeResult.round_score = 100
        /\ Below0(LastJson.round_score) => judgeResult.round_score = 0
    /\ (prog = "judge" /\ tpc = "t_thrown") => ~AnsweredWithObject

\* C19 (score clamping): the returned round_score is an integer in [0,100];
\* finite raw values above 100 give 100, raw values below 0 give 0, a number
\* literal too large for a double (1e999) gives 0, and no raw score makes the
\* call fail.
C19_ScoreClamped ==
    /\ JudgeReturned =>
        /\ judgeResult.round_score \in 0..100
        /\ Above100(LastJson.round_score) => judgeResult.round_score = 100
        /\ Below0(LastJson.round_score) => judgeResult.round_score = 0
        /\ LastJson.round_score.t = "overflow" => judgeResult.round_score = 0
    /\ (prog = "judge" /\ tpc = "t_thrown") => ~AnsweredWithObject

\* a judge object with round_score 1e999 was ingested
C19_Witness ==
    /\ JudgeReturned
    /\ LastJson.round_score = Raw("overflow", 1, 0, "")
    /\ judgeResult.round_score = 0

Verdicts == {"accept", "revise", "reject"}

\* C20 (verdict fallback): the returned verdict is one of accept, revise,
\* reject; it is the raw value when that is exactly one of the three strings and
\* `revise` for every other or missing value; no raw verdict makes the call fail.
C20_VerdictFallback ==
    /\ JudgeReturned =>
        /\ judgeResult.verdict \in Verdicts
        /\ judgeResult.verdict =
              IF LastJson.verdict.t = "string" /\ LastJson.verdict.s \in Verdicts
              THEN LastJson.verdict.s
              ELSE "revise"
    /\ (prog = "judge" /\ tpc = "t_thrown") => ~AnsweredWithObject

\* the event names of a sequence of events, in order
NamesOf(evs) == [i \in 1..Len(evs) |-> evs[i].event]

\* n copies of a sequence, one after the other
RECURSIVE Repeat(_, _)
Repeat(seq, n) == IF n = 0 THEN <<>> ELSE seq \o Repeat(seq, n - 1)

\* agents mode, two rounds configured, no call and no unguarded write threw
HappyRun ==
    /\ AgentsClosed /\ debateRounds = 2
    /\ escaped = "none" /\ failedPaths = {}

HappyRound(r) ==
    <<EvDebateStatus(r, "running"),
      EvDebateRound("radical", r, FALSE), EvJudgeRound("radical", r, FALSE),
      EvDebateRound("conservative", r, FALSE), EvJudgeRound("conservative", r, FALSE),
      EvDebateRound("cross_domain", r, FALSE), EvJudgeRound("cross_domain", r, FALSE),
      EvDebateStatus(r, "done")>>

HappyReport(p) == <<EvPathReport(p), EvPathStatus(p, "done")>>

DirectMode == prog = "chat" /\ ~agentsEnabled

\* C22 as stated: with system agents disabled the stream holds only session,
\* final_answer and done events, whether the responder call succeeds or fails,
\* and no reasoner call is made.
C22_DirectOnlyAsStated ==
    DirectMode =>
        /\ EventNames \subseteq {"session", "final_answer", "done"}
        /\ \A c \in IssuedCalls : c.kind = "responder_main"

\* C22 (system agents disabled): the stream holds only session, final_answer
\* and done events, and an error event only when the responder call or the
\* assistant-message write threw; the only call made is the one main-session
\* responder call.
C22_DirectOnly ==
    DirectMode =>
        /\ EventNames \subseteq {"session", "final_answer", "done", "error"}
        /\ "error" \in EventNames => escaped \in {"await_direct", "save_direct"}
        /\ \A c \in IssuedCalls : c.kind = "responder_main"
        /\ IssuedCount("responder_main", "-") <= 1

\* the direct responder call failed
C22_Witness ==
    /\ DirectMode /\ pc = "closed"
    /\ escaped = "await_direct" /\ "error" \in EventNames

\* the chat messages written for the request: the user message before the
\* stream starts, the assistant message once its write succeeded
ChatMessages ==
    <<[role |-> "user", sessionId |-> "s1", content |-> "message"]>>
    \o (IF dbAssistant = "none" THEN <<>>
        ELSE <<[role |-> "assistant", sessionId |-> dbAssistant,
                content |-> finalAnswerText]>>)

\* the session id of the last session event
LastSessionId ==
    LET i == CHOOSE k \in 1..Len(events) :
                /\ events[k].event = "session"
                /\ \A j \in (k + 1)..Len(events) : events[j].event # "session"
    IN  events[i].sid

SessionPositions == {i \in 1..Len(events) : events[i].event = "session"}

\* C25 (session events): the stream starts with a session event, and every
\* later session event carries a session id different from the one announced
\* by the session event before it.
C25_SessionOnlyOnChange ==
    (prog = "chat" /\ events # <<>>) =>
        /\ events[1].event = "session"
        /\ \A i, j \in SessionPositions :
              (i < j /\ \A k \in SessionPositions : ~(i < k /\ k < j)) =>
                  events[j].sid # events[i].sid

\* positions of the events of one name for (path, round)
PositionsOf(name, path, rnd) ==
    {i \in 1..Len(events) :
        events[i].event = name /\ events[i].path = path /\ events[i].round = rnd}

\* positions of debate_status {round, status}
StatusPositions(rnd, status) ==
    {i \in 1..Len(events) : events[i] = EvDebateStatus(rnd, status)}

\* path p had not failed when round r started
RunningAtStart(p, r) == callFailedAt[p] = 0 \/ callFailedAt[p] >= r

\* C26 (per-round event pairing): there is at most one debate_round and one
\* judge_round event per (path, round), each debate_round is immediately
\* followed by its judge_round, both lie after debate_status {r, running}; once
\* debate_status {r, done} is emitted, every path running at the start of round
\* r has exactly one such pair before it and every other path none; the rounds
\* of the stream never decrease.
C26_RoundEventPairing ==
    prog = "chat" =>
        /\ \A p \in Paths, r \in 1..debateRounds :
              /\ Cardinality(PositionsOf("debate_round", p, r)) <= 1
              /\ Cardinality(PositionsOf("judge_round", p, r)) <= 1
              /\ \A i \in PositionsOf("debate_round", p, r) :
                    /\ i + 1 \in PositionsOf("judge_round", p, r)
                    /\ \E k \in StatusPositions(r, "running") : k < i
              /\ \A i \in PositionsOf("judge_round", p, r) :
                    i - 1 \in PositionsOf("debate_round", p, r)
              /\ \A d \in StatusPositions(r, "done") :
                    IF RunningAtStart(p, r)
                    THEN \E i \in PositionsOf("debate_round", p, r) : i + 1 < d
                    ELSE PositionsOf("debate_round", p, r) = {}
        /\ \A r \in 1..debateRounds :
              /\ Cardinality(StatusPositions(r, "running")) <= 1
              /\ Cardinality(StatusPositions(r, "done")) <= 1
              /\ \A d \in StatusPositions(r, "done") :
                    \E k \in StatusPositions(r, "running") : k < d
        /\ \A i, j \in 1..Len(events) :
              (i < j /\ events[i].round > 0 /\ events[j].round > 0) =>
                  events[i].round <= events[j].round

\* round 2 is over: one path failed in round 1, one in round 2, one completed it
C26_Witness ==
    /\ prog = "chat" /\ StatusPositions(2, "done") # {}
    /\ \E p, q, w \in Paths :
          /\ callFailedAt[p] = 1 /\ callFailedAt[q] = 2
          /\ Len(pathTurns[w]) = 2

\* C28 (debate_round survives a judge failure): for every round of a path in
\* which the coach and the responder call succeeded (the judge call was issued)
\* and whose judge_round event is out, a debate_round event without error was
\* emitted for that path and round.
C28_DebateRoundAfterResponder ==
    prog = "chat" =>
        \A p \in Paths, r \in 1..debateRounds :
            (/\ PositionsOf("judge_round", p, r) # {}
             /\ \E c \in IssuedCalls : c.kind = "judge" /\ c.path = p /\ c.round = r) =>
                \E i \in PositionsOf("debate_round", p, r) : ~events[i].err

\* C30 (a failed round leaves state unchanged): the step in which a round
\* attempt of path p fails changes no transcript and no carried constraint and
\* adds p, and only p, to the failed set.
C30_FailedRoundFrame ==
    [][\A p \in Paths :
          callFailedAt'[p] # callFailedAt[p] =>
              /\ pathTurns' = pathTurns
              /\ constraints' = constraints
              /\ failedPaths' = failedPaths \cup {p}]_vars

\* a path failed in round 2 keeping its round-1 turn and constraint, beside a
\* path that is still running
C30_Witness ==
    \E p \in Paths, q \in Paths \ failedPaths :
        /\ callFailedAt[p] = 2 /\ p \in failedPaths
        /\ Len(pathTurns[p]) = 1
        /\ constraints[p] = JudgeOutput(p, 1).next_constraint
        /\ Len(pathTurns[q]) >= 1

\* what the claim says the option yields: the floor of a number in [1,10],
\* else 10
StatedRounds(env) ==
    IF env.t = "numeric_string" /\ env.i >= 1 /\ (env.i < 10 \/ (env.i = 10 /\ env.f = 0))
    THEN env.i
    ELSE 10

\* C24 (round count configuration): for every value of the option the number
\* of rounds is an integer in [1,10]: 10 when the option is unset, non-numeric,
\* below 1 or above 10, and the floor of the value otherwise.
C24_RoundCount ==
    (prog = "config" /\ configuredRounds # 0) =>
        /\ configuredRounds \in 1..10
        /\ configuredRounds = StatedRounds(envRounds)

\* a fractional value was read and floored
C24_Witness ==
    /\ prog = "config"
    /\ envRounds = Raw("numeric_string", 2, 7, "") /\ configuredRounds = 2

RECURSIVE StatedText(_)
\* the in-order concatenation of the content of the well-formed data lines
StatedText(lines) ==
    IF lines = <<>> THEN <<>>
    ELSE (IF Head(lines).kind = "data" /\ Head(lines).content # ""
          THEN <<Head(lines).content>> ELSE <<>>)
         \o StatedText(Tail(lines))

RECURSIVE StatedSession(_, _)
\* the session id of the last line that carries one, else the caller's
StatedSession(lines, caller) ==
    IF lines = <<>> THEN caller
    ELSE StatedSession(Tail(lines),
                       IF Head(lines).kind = "data" /\ Head(lines).sid # "none"
                       THEN Head(lines).sid ELSE caller)

\* C29 (responder stream assembly): whatever the read chunks and whether or
\* not the last line ends with a newline, requestSecondMeReply returns the
\* in-order concatenation of the content of every well-formed data line (the
\* placeholder text when that is empty) and the session id of the last line
\* that had one, else the caller's.
C29_StreamAssembly ==
    (prog = "stream" /\ spc = "returned") =>
        /\ streamReply.text =
             (IF StatedText(upstreamLines) = <<>> THEN Placeholder
              ELSE StatedText(upstreamLines))
        /\ streamReply.sessionId = StatedSession(upstreamLines, "s1")

\* the tasks of a table that belong to a comment's (thread, comment, target)
TasksOf(tasks, comment) ==
    {t \in tasks : /\ t.threadId = comment.threadId
                   /\ t.commentId = comment.id
                   /\ t.dedupeKey = dedupeKey(comment)}

\* poller i, alone at work, has the task upsert of the comment at the head of
\* its queue resolve
EnqueueStep(i) ==
    /\ prog = "poll" /\ pollPc[i] = "enqueue" /\ pollQueue[i] # <<>>
    /\ \A j \in Pollers \ {i} : PollOver(j)
    /\ mentionMatched(Head(pollQueue[i]).content)
    /\ ~isLowValueForumContent(Head(pollQueue[i]).content)
    /\ pollQueue'[i] = Tail(pollQueue[i])
    /\ pollPc'[i] = "enqueue"

\* C27 (mention dedupe): however many times the forum is polled one poll
\* after the other, a comment that a poll enqueues has exactly one mention
\* task for its (thread, comment, mention target), and a poll step leaves
\* the status, attempts, nextRunAt and result of every existing task as they
\* were.
C27_MentionDedupe ==
    [][\A i \in Pollers :
         EnqueueStep(i) =>
             /\ Cardinality(TasksOf(mentionTasks', Head(pollQueue[i]))) = 1
             /\ \A t \in mentionTasks : t \in mentionTasks']_vars

\* positions of the global path_status events
GlobalStatusPositions ==
    {i \in 1..Len(events) : events[i].event = "path_status" /\ events[i].path = "-"}

\* the status of the last global path_status event
LastGlobalStatus ==
    LET i == CHOOSE k \in GlobalStatusPositions : \A j \in GlobalStatusPositions : j <= k
    IN  events[i].status

\* C31 (synthesis excludes partial failure): in a closed agents-mode stream a
\* synthesis event implies that no path failed in any round, no stream holds
\* both a synthesis event and a global path_status partial_failed, and the
\* last global path_status is done exactly when synthesis was emitted.
C31_SynthesisExclusive ==
    AgentsClosed =>
        /\ "synthesis" \in EventNames =>
              /\ failedPaths = {}
              /\ \A i \in GlobalStatusPositions : events[i].status # "partial_failed"
        /\ LastGlobalStatus = "done" <=> "synthesis" \in EventNames

\* C32 (one session id at the end): the session id of the done event is the
\* session id of the most recent session event of the stream and the session
\* id under which the assistant chat message was stored.
C32_DoneSession ==
    (prog = "chat" /\ "done" \in EventNames) =>
        /\ events[Len(events)] = EvDone(LastSessionId)
        /\ dbAssistant = LastSessionId

\* the responder moved the conversation to s2 in the agents mode and the
\* stream ended with done
C32_Witness ==
    /\ AgentsClosed /\ "done" \in EventNames
    /\ mainSessionId = "s2" /\ dbAssistant = "s2"

\* C33 (single close): when the stream of POST /api/chat is over,
\* controller.close() has been called exactly once, whatever the path (direct
\* mode, synthesis branch, fallback branch, exception).
C33_ClosedOnce ==
    (prog = "chat" /\ pc = "closed") => closeCalls = 1

\* C39 (poll cursor monotonicity): no step of any forum-poll invocation,
\* under any interleaving of the invocations, decreases the cursor's
\* lastSeenAt.
C39_CursorMonotone ==
    [][prog = "poll" => lastSeenAt' >= lastSeenAt]_vars

\* the row of the task invocation i is working on
CurrentRow(i) == TaskById(CurrentTask(i).dedupeKey)

\* C34 (dispatch mutual exclusion): of concurrent forum-dispatch invocations
\* that fetched the same task at most one holds it; the task an invocation
\* processes is running, is processed by no other invocation, and has the
\* attempts the invocation fetched, so that no attempt number is processed
\* twice.
C34_MutualExclusion ==
    prog = "dispatch" =>
        \A i \in Dispatchers :
            Processing(i) =>
                /\ CurrentRow(i).status = "running"
                /\ CurrentRow(i).attempts = CurrentTask(i).attempts
                /\ \A j \in Dispatchers \ {i} :
                      Processing(j) =>
                          CurrentTask(j).dedupeKey # CurrentTask(i).dedupeKey

\* two invocations fetched the same task; one processes it, the other has
\* reached it in its loop
C34_Witness ==
    /\ prog = "dispatch"
    /\ \E i, j \in Dispatchers :
         /\ i # j /\ Processing(i)
         /\ dispatchPc[j] = "loop" /\ dispatchBatch[j] # <<>>
         /\ CurrentTask(j).dedupeKey = CurrentTask(i).dedupeKey

\* C35 (at-most-once reply): over all the dispatch attempts of a task the
\* forum accepts at most one reply to its comment.
C35_AtMostOneReply ==
    prog = "dispatch" => \A id \in TaskIds : forumReplies[id] <= 1

\* C36 (no task left running): a task is running only while an invocation is
\* processing it, so every task an invocation moved to running is done or
\* failed when the invocation has returned; and an invocation returns only
\* when every task of its batch has been gone through.
C36_NoTaskLeftRunning ==
    prog = "dispatch" =>
        /\ \A t \in mentionTasks :
              t.status = "running" =>
                  \E i \in Dispatchers :
                      Processing(i) /\ CurrentTask(i).dedupeKey = t.dedupeKey
        /\ lastResponse = "500" =>
              \A t \in mentionTasks : t.status # "running"

\* the row of task id after the step
RowAfter(id) == CHOOSE u \in mentionTasks' : u.dedupeKey = id

\* C37 (attempt cap): under forum-dispatch invocations and retry requests
\* every task has attempts <= MAX_ATTEMPTS, a task is taken (moved to
\* running) only with attempts < MAX_ATTEMPTS, and when the invocation that
\* took it moves on or returns the task's attempts are one more than when it
\* was taken.
C37_AttemptCap ==
    [][prog = "forumops" =>
         /\ \A t \in mentionTasks' : t.attempts <= MAX_ATTEMPTS
         /\ \A t \in mentionTasks :
              LET after == RowAfter(t.dedupeKey)
              IN  /\ (t.status # "running" /\ after.status = "running") =>
                        t.attempts < MAX_ATTEMPTS
                  /\ after.attempts \in {t.attempts, t.attempts + 1}
         /\ \A i \in Dispatchers :
              (Processing(i) /\ ~Processing(i)') =>
                  LET after == RowAfter(CurrentTask(i).dedupeKey)
                  IN  after.attempts = CurrentTask(i).attempts + 1]_vars

\* C38 (manual retry makes progress): the retry request resets a failed task
\* to pending with nextRunAt now, after which a forum-dispatch invocation
\* that starts fetches it, whatever its attempts; a request naming a task
\* that is not failed changes no task.
C38_RetryMakesProgress ==
    [][prog = "forumops" =>
         /\ (retryPc = "update" /\ lastResponse' = "200" /\ retryPc' = "idle") =>
               LET after == RowAfter(retryId)
               IN  /\ after.status = "pending" /\ after.nextRunAt = clock'
                   /\ after \in DueTasks(clock)'
         /\ lastResponse' \in {"400", "404"} /\ lastResponse' # lastResponse =>
               mentionTasks' = mentionTasks]_vars

\* C40 (generation failure degrades to the fallback reply): whether or not
\* generateForumReply failed, the reply call comes next; a task whose
\* generation failed and whose reply and status write succeeded is done with
\* fallback = true; a task is marked failed, with a later nextRunAt, only
\* after the reply call or the status write failed.
C40_FallbackReply ==
    [][prog = "dispatch" =>
         \A i \in Dispatchers :
            /\ (dispatchPc[i] = "generate" /\ dispatchPc'[i] # "generate") =>
                  dispatchPc'[i] = "reply"
            /\ (dispatchPc[i] = "mark_done" /\ dispatchPc'[i] = "loop") =>
                  LET id == CurrentTask(i).dedupeKey
                  IN  /\ RowAfter(id).status = "done"
                      /\ RowAfter(id).result =
                            (IF dispatchFallback[i] THEN "fallback" ELSE "reply")
                      /\ forumReplies[id] >= 1
            /\ Processing(i) =>
                  LET id == CurrentTask(i).dedupeKey
                  IN  (RowAfter(id).status = "failed") =>
                          /\ dispatchPc[i] = "mark_failed"
                          /\ RowAfter(id).nextRunAt > clock]_vars

\* a task whose generation failed is done with the fallback reply posted
C40_Witness ==
    /\ prog = "dispatch"
    /\ \E t \in mentionTasks :
         /\ t.status = "done" /\ t.result = "fallback"
         /\ forumReplies[t.dedupeKey] = 1

====
